---------------------------- MODULE Spec2Model ----------------------------
(***************************************************************************)
(* A model of jsonlint: the metaclass that keeps the per-class field       *)
(* table (jsonlint/jsons.py, JsonMeta), the container (BaseJson, Json) and *)
(* the fields' process / validate lifecycle (jsonlint/fields.py).          *)
(*                                                                         *)
(* The module holds several specifications over one set of variables:      *)
(*   SpecMeta   class-level declarations, mutations and constructions      *)
(*   SpecField  one bound scalar field: process, then validate             *)
(*   SpecJson   one container of scalar, list and object fields            *)
(*   SpecList   one container of a list field: entries and limits          *)
(*   SpecObject one container of an object field and its declarations      *)
(*   SpecNative one container filled from and written to native objects    *)
(*   SpecFilters one container of fields with defaults and filters         *)
(*   SpecInherit subtypes with one and with two ancestors                  *)
(*   SpecCounter the creation counter of the field declarations            *)
(*   SpecConfig the Meta of a class, assembled from its ancestors          *)
(*   SpecCache  the cached field table of a class under assignments        *)
(*   SpecHook   one container with validators in the class body            *)
(*   SpecShared two containers of a list field with one default list       *)
(* A specification leaves the variables of the other parts at their        *)
(* initial value.                                                          *)
(***************************************************************************)
EXTENDS Integers, Sequences, FiniteSets, TLC

VARIABLES
    creation_counter,   \* UnboundField.creation_counter (class attribute)
    class_dict,         \* cls.__dict__ of every modelled class: name -> value
    unbound_fields,     \* cls._unbound_fields: None or the sorted field table
    json_meta,          \* cls._json_meta: None or the bases of the built Meta
    constructed,        \* the instance the last call returned, if it was a construction
    fault,              \* the exception the last call raised ("" when it returned)
    bound_field,        \* SpecField: the bound field
    instance,           \* SpecJson, SpecList, SpecObject: the container instance
    last,               \* the last call on the field or the container, and its outcome
    history             \* the outcomes of the validate calls since the last process

metaVars == <<creation_counter, class_dict, unbound_fields, json_meta, constructed>>

instanceVars == <<bound_field, instance, last, history>>

vars ==
    <<creation_counter, class_dict, unbound_fields, json_meta, constructed, fault,
      bound_field, instance, last, history>>

(***************************************************************************)
(* Bounds of the model.                                                    *)
(***************************************************************************)
\* The largest creation counter a run hands out.
MaxSeq == 4

\* The most validators a field declares.
MaxValidators == 2

\* The most validate calls in a row.
MaxValidateCalls == 2

\* The largest last_index of a list at which the container is processed again.
MaxLastIndex == 1

\* The largest last_index of the list of SpecList at which it is processed
\* again or an entry is appended.
MaxListIndex == 2

(***************************************************************************)
(* Python values and names.                                                *)
(***************************************************************************)
\* Python's None, for a slot that otherwise holds a sequence.
None == [none |-> TRUE, v |-> <<>>]

Some(v) == [none |-> FALSE, v |-> v]

\* A Python str is the sequence of its characters.  The printable ASCII
\* characters in code point order, from 32 (space) to 126 (~); the double quote,
\* the backslash and the backtick are written out.
Ascii ==
    <<" ", "!", "dquote", "#", "$", "%", "&", "'", "(", ")", "*", "+", ",", "-", ".", "/",
      "0", "1", "2", "3", "4", "5", "6", "7", "8", "9", ":", ";", "<", "=", ">", "?",
      "@", "A", "B", "C", "D", "E", "F", "G", "H", "I", "J", "K", "L", "M", "N", "O",
      "P", "Q", "R", "S", "T", "U", "V", "W", "X", "Y", "Z", "[", "backslash", "]", "^", "_",
      "backtick", "a", "b", "c", "d", "e", "f", "g", "h", "i", "j", "k", "l", "m", "n", "o",
      "p", "q", "r", "s", "t", "u", "v", "w", "x", "y", "z", "{", "|", "}", "~">>

\* ord(c)
Ord(c) == 31 + (CHOOSE i \in DOMAIN Ascii : Ascii[i] = c)

\* name.startswith('_')
StartsWithUnderscore(name) == name # <<>> /\ name[1] = "_"

\* Python's < on two strings: lexicographic by code point.
RECURSIVE StrLess(_, _)
StrLess(x, y) ==
    IF y = <<>> THEN FALSE
    ELSE IF x = <<>> THEN TRUE
    ELSE IF x[1] # y[1] THEN Ord(x[1]) < Ord(y[1])
    ELSE StrLess(Tail(x), Tail(y))

\* The Python values the fields handle.
NoneValue == [t |-> "none"]

\* jsonlint.utils.unset_value: the marker for "no value given"; it is falsy.
unset_value == [t |-> "unset"]

\* The state of an attribute that was never assigned (reading it raises).
Missing == [t |-> "missing"]

StrValue(chars) == [t |-> "str", s |-> chars]

IntValue(n) == [t |-> "int", n |-> n]

BoolValue(b) == [t |-> "bool", b |-> b]

\* A float, held in tenths: the floats of the model have one fractional digit.
FloatValue(tenths) == [t |-> "float", tenths |-> tenths]

ListValue(items) == [t |-> "list", items |-> items]

\* A dict: m is a function from its keys (str) to values.
DictValue(m) == [t |-> "dict", m |-> m]

\* An object (an AttrDict of the tests): id is its identity, attrs its attributes.
ObjectValue(id, attrs) == [t |-> "object", id |-> id, attrs |-> attrs]

\* setattr(obj, name, value)
SetAttribute(obj, name, value) == [obj EXCEPT !.attrs = (name :> value) @@ obj.attrs]

\* A function of no argument that returns ret.
CallableValue(ret) == [t |-> "callable", ret |-> ret]

\* bool(value)
Truthy(value) ==
    CASE value.t = "none" -> FALSE
      [] value.t = "unset" -> FALSE
      [] value.t = "str" -> value.s # <<>>
      [] value.t = "int" -> value.n # 0
      [] value.t = "bool" -> value.b
      [] value.t = "float" -> value.tenths # 0
      [] value.t = "list" -> value.items # <<>>
      [] value.t = "dict" -> DOMAIN value.m # {}
      [] value.t = "msg" -> value.text # ""
      [] OTHER -> TRUE

Digits == {"0", "1", "2", "3", "4", "5", "6", "7", "8", "9"}

DigitValue(c) == Ord(c) - Ord("0")

RECURSIVE DigitsValue(_, _)
DigitsValue(chars, acc) ==
    IF chars = <<>> THEN acc
    ELSE DigitsValue(Tail(chars), 10 * acc + DigitValue(Head(chars)))

AllDigits(chars) == chars # <<>> /\ \A i \in DOMAIN chars : chars[i] \in Digits

\* The result of a call that may raise: exc is "" or the exception's class.
Returned(value) == [exc |-> "", value |-> value]

Raised(exc) == [exc |-> exc, value |-> NoneValue]

\* str.strip() of blanks.
RECURSIVE Strip(_)
Strip(chars) ==
    IF chars # <<>> /\ chars[1] = " " THEN Strip(Tail(chars))
    ELSE IF chars # <<>> /\ chars[Len(chars)] = " "
    THEN Strip(SubSeq(chars, 1, Len(chars) - 1))
    ELSE chars

\* int(str): blanks around it dropped, an optional sign, then digits.
ParseInt(chars) ==
    LET Signed(text) == text # <<>> /\ text[1] \in {"-", "+"}
        Convert(negative, body) ==
            IF ~AllDigits(body) THEN Raised("ValueError")
            ELSE IF negative
            THEN Returned(IntValue(0 - DigitsValue(body, 0)))
            ELSE Returned(IntValue(DigitsValue(body, 0)))
        Parse(text) ==
            Convert(Signed(text) /\ text[1] = "-", IF Signed(text) THEN Tail(text) ELSE text)
    IN Parse(Strip(chars))

\* int(value)
IntOf(value) ==
    CASE value.t = "int" -> Returned(value)
      [] value.t = "bool" -> Returned(IntValue(IF value.b THEN 1 ELSE 0))
      [] value.t = "float" ->
            Returned(IntValue(IF value.tenths >= 0
                              THEN value.tenths \div 10
                              ELSE 0 - ((0 - value.tenths) \div 10)))
      [] value.t = "str" -> ParseInt(value.s)
      [] OTHER -> Raised("TypeError")

\* float(str): blanks around it dropped, an optional sign, digits and optionally
\* a point and digits (the strings of the model carry at most one of them).
ParseFloat(chars) ==
    LET Signed(text) == text # <<>> /\ text[1] \in {"-", "+"}
        Tenths(whole, frac) ==
            10 * DigitsValue(whole, 0) + (IF frac = <<>> THEN 0 ELSE DigitValue(frac[1]))
        Convert(negative, dots, whole, frac) ==
            IF \/ Cardinality(dots) > 1
               \/ whole = <<>> /\ frac = <<>>
               \/ whole # <<>> /\ ~AllDigits(whole)
               \/ frac # <<>> /\ ~AllDigits(frac)
            THEN Raised("ValueError")
            ELSE IF negative
            THEN Returned(FloatValue(0 - Tenths(whole, frac)))
            ELSE Returned(FloatValue(Tenths(whole, frac)))
        Split(negative, body, dots) ==
            Convert(negative, dots,
                    IF dots = {} THEN body
                    ELSE SubSeq(body, 1, (CHOOSE i \in dots : TRUE) - 1),
                    IF dots = {} THEN <<>>
                    ELSE SubSeq(body, (CHOOSE i \in dots : TRUE) + 1, Len(body)))
        Unsigned(negative, body) == Split(negative, body, {i \in DOMAIN body : body[i] = "."})
        Parse(text) ==
            Unsigned(Signed(text) /\ text[1] = "-", IF Signed(text) THEN Tail(text) ELSE text)
    IN Parse(Strip(chars))

\* float(value)
FloatOf(value) ==
    CASE value.t = "float" -> Returned(value)
      [] value.t = "int" -> Returned(FloatValue(10 * value.n))
      [] value.t = "bool" -> Returned(FloatValue(IF value.b THEN 10 ELSE 0))
      [] value.t = "str" -> ParseFloat(value.s)
      [] OTHER -> Raised("TypeError")

\* A message of an error (an opaque text).
Message(text) == [t |-> "msg", text |-> text]

\* What a validator, a pre_validate or a post_validate does when it is called:
\* it raises the exception `raises` with the arguments args, or returns
\* (raises = ""); when = "always", "falsy" (only if field.data is falsy) or
\* "stopped" (a post_validate: only if the chain was stopped).
Behaviour(raises, args, when) == [raises |-> raises, args |-> args, when |-> when]

Pass == Behaviour("", <<>>, "always")

\* A field class: one of the classes of fields.py, possibly subclassed to
\* override pre_validate and post_validate (whose defaults pass).
FieldClass(base, pre_validate, post_validate) ==
    [base |-> base, pre_validate |-> pre_validate, post_validate |-> post_validate]

StringField == FieldClass("StringField", Pass, Pass)

IntegerField == FieldClass("IntegerField", Pass, Pass)

FloatField == FieldClass("FloatField", Pass, Pass)

BooleanField == FieldClass("BooleanField", Pass, Pass)

ListField == FieldClass("ListField", Pass, Pass)

ObjectField == FieldClass("ObjectField", Pass, Pass)

\* The keyword arguments of a field, at the defaults of Field.__init__,
\* ListField.__init__ and ObjectField.__init__.
DefaultKwargs ==
    [validators |-> <<>>, filters |-> <<>>, default |-> NoneValue, id |-> NoneValue,
     unbound_field |-> NoneValue, min_entries |-> 0, max_entries |-> NoneValue,
     json_class |-> ""]

\* UnboundField.__init__ after the counter was raised to n: it carries
\* _jsonfield, its own creation counter, the field class and the arguments.
MakeUnbound(n, field_class, kwargs) ==
    [py |-> "UnboundField", jsonfield |-> TRUE, creation_counter |-> n,
     field_class |-> field_class, kwargs |-> kwargs]

\* StringField(), created as the n-th field.
UnboundField(n) == MakeUnbound(n, StringField, DefaultKwargs)

\* A value that is no field (an int).
PlainValue == [py |-> "int", jsonfield |-> FALSE, creation_counter |-> 0]

\* A function defined in a class body, with what it does when it is called as a
\* validator.
FunctionValue(behaviour) ==
    [py |-> "function", jsonfield |-> FALSE, creation_counter |-> 0,
     behaviour |-> behaviour]

\* A configuration class assigned to the attribute Meta.
MetaClass(m) == [py |-> m, jsonfield |-> FALSE, creation_counter |-> 0]

\* hasattr(value, '_jsonfield')
HasJsonField(value) == value.jsonfield

(***************************************************************************)
(* The classes: class A(Json), class B(A) of SpecMeta; class Inner(Json),  *)
(* class F(Json) of SpecJson; class L(Json) of SpecList; class G(Json) of  *)
(* SpecObject.  Json itself declares Meta = DefaultMeta and no field.      *)
(***************************************************************************)
Classes == {"A", "B"}

\* cls.__mro__, without BaseJson and object (they hold neither field nor Meta).
Mro ==
    [A |-> <<"A", "Json">>, B |-> <<"B", "A", "Json">>,
     Inner |-> <<"Inner", "Json">>, F |-> <<"F", "Json">>,
     L |-> <<"L", "Json">>, G |-> <<"G", "Json">>, P |-> <<"P", "Json">>,
     Q |-> <<"Q", "Json">>,
     M |-> <<"M", "Json">>, D |-> <<"D", "A", "M", "Json">>]

\* The public names the model assigns and deletes.
FieldNames == {<<"a">>, <<"b">>}

\* getattr(cls, name): the first class of the MRO whose __dict__ holds name.
RECURSIVE Lookup(_, _, _)
Lookup(dicts, mro, name) ==
    IF mro = <<>> THEN None
    ELSE IF name \in DOMAIN dicts[Head(mro)] THEN Some(dicts[Head(mro)][name])
    ELSE Lookup(dicts, Tail(mro), name)

\* A bug: only the names of the class's own __dict__.
DirNamesOwn(dicts, cls) == DOMAIN dicts[cls]

\* The names of dir(cls): every name of a __dict__ along the MRO.
DirNames(dicts, cls) ==
    UNION {DOMAIN dicts[Mro[cls][i]] : i \in DOMAIN Mro[cls]}

\* dir(cls) lists the names in ascending order.
RECURSIVE SortedNames(_)
SortedNames(S) ==
    IF S = {} THEN <<>>
    ELSE LET m == CHOOSE x \in S : \A y \in S \ {x} : StrLess(x, y)
         IN <<m>> \o SortedNames(S \ {m})

Dir(dicts, cls) == SortedNames(DirNames(dicts, cls))

\* The sort key of a (name, unbound_field) pair: (creation_counter, name).
KeyLess(p, q) ==
    \/ p[2].creation_counter < q[2].creation_counter
    \/ /\ p[2].creation_counter = q[2].creation_counter
       /\ StrLess(p[1], q[1])

\* list.sort is stable: an element goes behind every element not greater than it.
RECURSIVE InsertByKey(_, _)
InsertByKey(sorted, p) ==
    IF sorted = <<>> THEN <<p>>
    ELSE IF KeyLess(p, Head(sorted)) THEN <<p>> \o sorted
    ELSE <<Head(sorted)>> \o InsertByKey(Tail(sorted), p)

RECURSIVE SortByKey(_, _)
SortByKey(done, rest) ==
    IF rest = <<>> THEN done
    ELSE SortByKey(InsertByKey(done, Head(rest)), Tail(rest))

\* A bug: the table is left in dir() order.
SortFieldsUnsorted(fields) == fields

\* fields.sort(key=lambda x: (x[1].creation_counter, x[0]))
SortFields(fields) == SortByKey(<<>>, fields)

\* The loop over dir(cls): the public names whose value has _jsonfield.
RECURSIVE CollectFields(_, _, _)
CollectFields(dicts, cls, names) ==
    IF names = <<>> THEN <<>>
    ELSE LET name == Head(names)
             unbound_field == Lookup(dicts, Mro[cls], name).v
             rest == CollectFields(dicts, cls, Tail(names))
         IN IF ~StartsWithUnderscore(name) /\ HasJsonField(unbound_field)
            THEN <<<<name, unbound_field>>>> \o rest
            ELSE rest

\* The field table JsonMeta.__call__ builds for cls.
BuildFields(dicts, cls) == SortFields(CollectFields(dicts, cls, Dir(dicts, cls)))

\* The bases of the Meta class JsonMeta.__call__ builds: the Meta of every class
\* of the MRO that declares one itself.
RECURSIVE CollectMeta(_, _)
CollectMeta(dicts, mro) ==
    IF mro = <<>> THEN <<>>
    ELSE LET rest == CollectMeta(dicts, Tail(mro))
         IN IF <<"M", "e", "t", "a">> \in DOMAIN dicts[Head(mro)]
            THEN <<dicts[Head(mro)][<<"M", "e", "t", "a">>].py>> \o rest
            ELSE rest

\* A bug: only the Meta of the class itself and the default are collected.
BuildMetaOwnOnly(dicts, cls) == CollectMeta(dicts, <<cls, "Json">>)

\* A bug: the Meta of the most derived class comes last.
BuildMetaBaseFirst(dicts, cls) ==
    LET bases == CollectMeta(dicts, Mro[cls])
    IN [i \in DOMAIN bases |-> bases[Len(bases) + 1 - i]]

BuildMeta(dicts, cls) == CollectMeta(dicts, Mro[cls])

\* A bug: every write but that of Meta drops cls._unbound_fields.
SetAttrDropsAlways(name, value) == name # <<"M", "e", "t", "a">>

\* JsonMeta.__setattr__: whether the write drops cls._unbound_fields.
SetAttrDropsFields(name, value) ==
    name # <<"M", "e", "t", "a">> /\ ~StartsWithUnderscore(name) /\ HasJsonField(value)

\* JsonMeta.__delattr__: whether the deletion drops cls._unbound_fields.
DelAttrDropsFields(name) == ~StartsWithUnderscore(name)

(***************************************************************************)
(* Fields (jsonlint/fields.py).                                            *)
(***************************************************************************)
\* Field.__init__, reached through UnboundField.bind: the attributes of a
\* bound field.  data is not set before process.
FieldInit(unbound_field, name, prefix, id) ==
    [type |-> unbound_field.field_class.base,
     pre_validate |-> unbound_field.field_class.pre_validate,
     post_validate |-> unbound_field.field_class.post_validate,
     default |-> unbound_field.kwargs.default,
     filters |-> unbound_field.kwargs.filters,
     name |-> prefix \o name,
     short_name |-> name,
     validators |-> unbound_field.kwargs.validators,
     id |-> IF Truthy(id) THEN id ELSE StrValue(prefix \o name),
     data |-> Missing,
     raw_data |-> NoneValue,
     process_errors |-> <<>>,
     errors |-> <<>>]

\* try: data = self.default() / except TypeError: data = self.default
CallDefault(default) == IF default.t = "callable" THEN default.ret ELSE default

\* process_data: BooleanField stores bool(value), the others the value.
ProcessData(field, value) ==
    IF field.type = "BooleanField"
    THEN [field EXCEPT !.data = BoolValue(Truthy(value))]
    ELSE [field EXCEPT !.data = value]

\* BooleanField.false_values
false_values == {StrValue(<<"f", "a", "l", "s", "e">>), StrValue(<<>>)}

\* process_jsondata of the scalar fields: the field after it, and the
\* exception it raised (with its message), if any.
ProcessJsondata(field, value) ==
    LET \* try: self.data = <converted> / except (ValueError, TypeError): ...
        Store(converted, text) ==
            IF converted.exc = ""
            THEN [exc |-> "", message |-> Message(""),
                  field |-> [field EXCEPT !.data = converted.value]]
            ELSE [exc |-> "ValueError", message |-> Message(text),
                  field |-> [field EXCEPT !.data = NoneValue]]
    IN
    CASE field.type = "StringField" ->
            [exc |-> "", message |-> Message(""),
             field |-> [field EXCEPT
                           !.data = IF value.t = "str" THEN value ELSE StrValue(<<>>)]]
      [] field.type = "IntegerField" -> Store(IntOf(value), "Not a valid integer value")
      [] field.type = "FloatField" -> Store(FloatOf(value), "Not a valid float value")
      [] field.type = "BooleanField" ->
            [exc |-> "", message |-> Message(""),
             field |-> [field EXCEPT
                           !.data = BoolValue(~(~Truthy(value) \/ value \in false_values))]]

\* The filters of the model: int, lambda x: -x, lambda x: x.strip().
ApplyFilter(filter, value) ==
    CASE filter = "int" -> IntOf(value)
      [] filter = "neg" ->
            IF value.t = "int" THEN Returned(IntValue(0 - value.n))
            ELSE IF value.t = "float" THEN Returned(FloatValue(0 - value.tenths))
            ELSE IF value.t = "bool" THEN Returned(IntValue(IF value.b THEN -1 ELSE 0))
            ELSE Raised("TypeError")
      [] filter = "strip" ->
            IF value.t = "str" THEN Returned(StrValue(Strip(value.s)))
            ELSE Raised("AttributeError")

\* The filter loop of Field.process: a ValueError ends the loop and is recorded,
\* another exception leaves process.
RECURSIVE ApplyFilters(_, _)
ApplyFilters(field, filters) ==
    IF filters = <<>> THEN [exc |-> "", field |-> field]
    ELSE LET Filtered(r) ==
                 IF r.exc = ""
                 THEN ApplyFilters([field EXCEPT !.data = r.value], Tail(filters))
                 ELSE IF r.exc = "ValueError"
                 THEN [exc |-> "",
                       field |-> [field EXCEPT
                                     !.process_errors = Append(@, Message("invalid literal"))]]
                 ELSE [exc |-> r.exc, field |-> field]
         IN Filtered(ApplyFilter(Head(filters), field.data))

\* A bug: process_jsondata runs on the empty input whatever the data is.
ScalarProcessClobbers(field, jsondata, data) ==
    LET value == IF data = unset_value THEN CallDefault(field.default) ELSE data
        present == jsondata # NoneValue /\ field.name \in DOMAIN jsondata.m
        absent == jsondata # NoneValue /\ field.name \notin DOMAIN jsondata.m
        Raw(f1) ==
            IF present THEN [f1 EXCEPT !.raw_data = jsondata.m[field.name]]
            ELSE IF absent THEN [f1 EXCEPT !.raw_data = ListValue(<<>>)]
            ELSE f1
        Coerce(f2) ==
            IF present \/ absent
            THEN ProcessJsondata(f2, f2.raw_data)
            ELSE [exc |-> "", message |-> Message(""), field |-> f2]
        Filter(coerced) ==
            IF coerced.exc = "" THEN ApplyFilters(coerced.field, field.filters)
            ELSE IF present /\ coerced.exc = "ValueError"
            THEN ApplyFilters([coerced.field EXCEPT
                                  !.process_errors = Append(@, coerced.message)],
                              field.filters)
            ELSE [exc |-> coerced.exc, field |-> coerced.field]
    IN Filter(Coerce(Raw(ProcessData([field EXCEPT !.process_errors = <<>>], value))))

\* Field.process of a scalar field.  jsondata is None or a dict.
ScalarProcess(field, jsondata, data) ==
    LET value == IF data = unset_value THEN CallDefault(field.default) ELSE data
        present == jsondata # NoneValue /\ field.name \in DOMAIN jsondata.m
        absent == jsondata # NoneValue /\ field.name \notin DOMAIN jsondata.m
        \* self.raw_data = jsondata[self.name], or [] if the name is not in it
        Raw(f1) ==
            IF present THEN [f1 EXCEPT !.raw_data = jsondata.m[field.name]]
            ELSE IF absent THEN [f1 EXCEPT !.raw_data = ListValue(<<>>)]
            ELSE f1
        Coerce(f2) ==
            IF present \/ (absent /\ ~Truthy(f2.data))
            THEN ProcessJsondata(f2, f2.raw_data)
            ELSE [exc |-> "", message |-> Message(""), field |-> f2]
        \* only the call under "if self.name in jsondata" is inside a try
        Filter(coerced) ==
            IF coerced.exc = "" THEN ApplyFilters(coerced.field, field.filters)
            ELSE IF present /\ coerced.exc = "ValueError"
            THEN ApplyFilters([coerced.field EXCEPT
                                  !.process_errors = Append(@, coerced.message)],
                              field.filters)
            ELSE [exc |-> coerced.exc, field |-> coerced.field]
    IN Filter(Coerce(Raw(ProcessData([field EXCEPT !.process_errors = <<>>], value))))

\* One call of a hook or a validator, for the record of what validate invoked:
\* the field, the callable (callee), its position in the chain and the flag
\* post_validate received.
Event(field, hook, callee, index, stopped) ==
    [field |-> field.name, id |-> field.id, hook |-> hook, callee |-> callee,
     index |-> index, stopped |-> stopped]

\* Whether the behaviour raises on this call.
Fires(behaviour, data, stopped) ==
    /\ behaviour.raises # ""
    /\ \/ behaviour.when = "always"
       \/ behaviour.when = "falsy" /\ ~Truthy(data)
       \/ behaviour.when = "stopped" /\ stopped

\* A bug: a StopValidation without message adds an (empty) error too.
AppendStopMessageAlways(errors, args) ==
    Append(errors, IF args # <<>> THEN args[1] ELSE Message(""))

\* if e.args and e.args[0]: self.errors.append(e.args[0])
AppendStopMessage(errors, args) ==
    IF args # <<>> /\ Truthy(args[1]) THEN Append(errors, args[1]) ELSE errors

\* A bug: a StopValidation is recorded like a ValueError and the chain goes on.
RECURSIVE RunValidationChainNoStop(_, _, _, _, _, _)
RunValidationChainNoStop(field, data, errors, validators, index, log) ==
    IF validators = <<>>
    THEN [exc |-> "", errors |-> errors, stopped |-> FALSE, log |-> log]
    ELSE LET validator == Head(validators)
             called == Append(log, Event(field, "validator", validator, index, FALSE))
         IN IF ~Fires(validator, data, FALSE)
            THEN RunValidationChainNoStop(field, data, errors, Tail(validators),
                                          index + 1, called)
            ELSE RunValidationChainNoStop(field, data,
                                          AppendStopMessage(errors, validator.args),
                                          Tail(validators), index + 1, called)

\* Field._run_validation_chain: errors and data are the field's; index is the
\* position of the first validator in the whole chain.
RECURSIVE RunValidationChain(_, _, _, _, _, _)
RunValidationChain(field, data, errors, validators, index, log) ==
    IF validators = <<>>
    THEN [exc |-> "", errors |-> errors, stopped |-> FALSE, log |-> log]
    ELSE LET Invoke(validator, called) ==
                 IF ~Fires(validator, data, FALSE)
                 THEN RunValidationChain(field, data, errors, Tail(validators), index + 1,
                                         called)
                 ELSE IF validator.raises = "StopValidation"
                 THEN [exc |-> "", errors |-> AppendStopMessage(errors, validator.args),
                       stopped |-> TRUE, log |-> called]
                 ELSE IF validator.raises = "ValueError"
                 THEN RunValidationChain(field, data, Append(errors, validator.args[1]),
                                         Tail(validators), index + 1, called)
                 ELSE [exc |-> validator.raises, errors |-> errors, stopped |-> FALSE,
                       log |-> called]
         IN Invoke(Head(validators),
                   Append(log, Event(field, "validator", Head(validators), index, FALSE)))

\* A bug: the errors of the last validate call are kept.
ResetErrorsKeep(field) == field.errors

\* A bug: validate starts from an empty list.
ResetErrorsEmpty(field) == <<>>

\* self.errors = list(self.process_errors), at the head of validate.
ResetErrors(field) == field.process_errors

\* A bug: the extra validators run first.
ChainExtraFirst(validators, extra_validators) == extra_validators \o validators

\* itertools.chain(self.validators, extra_validators)
Chain(validators, extra_validators) == validators \o extra_validators

\* Field.validate of a scalar field: the field after it, what it returned, the
\* hooks and validators it called, and the exception that left it, if any.
ScalarValidate(field, extra_validators) ==
    LET errors0 == ResetErrors(field)
        pre == field.pre_validate
        preFires == Fires(pre, field.data, FALSE)
        preStop == preFires /\ pre.raises = "StopValidation"
        preEscapes == preFires /\ pre.raises \notin {"StopValidation", "ValueError"}
        errors1 == IF preStop THEN AppendStopMessage(errors0, pre.args)
                   ELSE IF preFires /\ pre.raises = "ValueError"
                   THEN Append(errors0, pre.args[1])
                   ELSE errors0
        log1 == <<Event(field, "pre_validate", pre, 0, FALSE)>>
        post == field.post_validate
        \* what follows the chain: post_validate, then the return
        PostValidate(chain) ==
            LET postFires == Fires(post, field.data, chain.stopped)
                errors2 == IF postFires /\ post.raises = "ValueError"
                           THEN Append(chain.errors, post.args[1])
                           ELSE chain.errors
                log2 == Append(chain.log,
                               Event(field, "post_validate", post, 0, chain.stopped))
            IN IF chain.exc # ""
               THEN [exc |-> chain.exc, ok |-> FALSE, log |-> chain.log,
                     field |-> [field EXCEPT !.errors = chain.errors]]
               ELSE IF postFires /\ post.raises # "ValueError"
               THEN [exc |-> post.raises, ok |-> FALSE, log |-> log2,
                     field |-> [field EXCEPT !.errors = chain.errors]]
               ELSE [exc |-> "", ok |-> errors2 = <<>>, log |-> log2,
                     field |-> [field EXCEPT !.errors = errors2]]
    IN IF preEscapes
       THEN [exc |-> pre.raises, ok |-> FALSE, log |-> log1,
             field |-> [field EXCEPT !.errors = errors0]]
       ELSE PostValidate(IF preStop
                         THEN [exc |-> "", errors |-> errors1, stopped |-> TRUE,
                               log |-> log1]
                         ELSE RunValidationChain(field, field.data, errors1,
                                                 Chain(field.validators, extra_validators),
                                                 1, log1))

\* The field class's own __init__ after Field.__init__: ListField and
\* ObjectField add attributes and reject filters (and validators).
NewField(unbound_field, name, prefix, id) ==
    LET kwargs == unbound_field.kwargs
        Extend(base) ==
           CASE base.type = "ListField" ->
               IF base.filters # <<>>
               THEN [exc |-> "TypeError", field |-> base]
               ELSE [exc |-> "",
                     field |-> base @@ [unbound_field |-> kwargs.unbound_field,
                                        min_entries |-> kwargs.min_entries,
                                        max_entries |-> kwargs.max_entries,
                                        last_index |-> -1,
                                        prefix |-> prefix,
                                        entries |-> <<>>]]
         [] base.type = "ObjectField" ->
               IF base.filters # <<>> \/ base.validators # <<>>
               THEN [exc |-> "TypeError", field |-> base]
               ELSE [exc |-> "",
                     field |-> base @@ [json_class |-> kwargs.json_class,
                                        obj |-> NoneValue,
                                        json |-> None]]
         [] OTHER -> [exc |-> "", field |-> base]
    IN Extend(FieldInit(unbound_field, name, prefix, id))

\* The class-level state a construction reads and fills.
World(dicts, tables, metas) ==
    [class_dict |-> dicts, unbound_fields |-> tables, json_meta |-> metas]

\* JsonMeta.__call__ up to type.__call__: what is None is built.
BuildCaches(w, cls) ==
    [w EXCEPT
        !.unbound_fields[cls] =
            IF @ = None THEN Some(BuildFields(w.class_dict, cls)) ELSE @,
        !.json_meta[cls] =
            IF @ = None THEN Some(BuildMeta(w.class_dict, cls)) ELSE @]

\* The separators a prefix may end with.
PrefixSeparators == {"-", "_", ";", ":", "/", "."}

\* A bug: every prefix that is not empty gets the hyphen.
NormalizePrefixAlways(prefix) ==
    IF prefix # <<>> THEN prefix \o <<"-">> ELSE prefix

\* BaseJson.__init__: if prefix and prefix[-1] not in '-_;:/.': prefix += '-'
NormalizePrefix(prefix) ==
    IF prefix # <<>> /\ prefix[Len(prefix)] \notin PrefixSeparators
    THEN prefix \o <<"-">>
    ELSE prefix

\* The binding loop of BaseJson.__init__, in the order of the table.
RECURSIVE BindFields(_, _)
BindFields(table, prefix) ==
    IF table = <<>> THEN [exc |-> "", fields |-> <<>>]
    ELSE LET Bound(bound, rest) ==
                 IF bound.exc # "" THEN [exc |-> bound.exc, fields |-> <<>>]
                 ELSE IF rest.exc # "" THEN rest
                 ELSE [exc |-> "",
                       fields |-> <<<<Head(table)[1], bound.field>>>> \o rest.fields]
         IN Bound(NewField(Head(table)[2], Head(table)[1], prefix, NoneValue),
                  BindFields(Tail(table), prefix))

\* BaseJson.__init__ (cls is "" for a plain BaseJson).
BaseJsonInit(cls, table, prefix, meta) ==
    LET Made(bound) ==
            [exc |-> bound.exc,
             json |-> [cls |-> cls, meta |-> meta, prefix |-> NormalizePrefix(prefix),
                       errors |-> None, fields |-> bound.fields, masked |-> {}]]
    IN Made(BindFields(table, NormalizePrefix(prefix)))

RECURSIVE FieldProcess(_, _, _, _)
RECURSIVE FieldValidate(_, _, _)
RECURSIVE FieldData(_)

\* A bug: the name of an entry carries its index.
EntryNameIndexed(field, index) ==
    field.short_name \o <<"-", Ascii[17 + index]>>

\* name = self.short_name, in ListField._add_entry
EntryName(field, index) == field.short_name

\* ListField._add_entry (index is never passed by its callers).
AddEntry(w, field, jsondata, data) ==
    IF Truthy(field.max_entries) /\ ~(Len(field.entries) < field.max_entries.n)
    THEN [exc |-> "AssertionError", field |-> field, w |-> w]
    ELSE LET index == field.last_index + 1
             marked == [field EXCEPT !.last_index = index]
             Added(processed) ==
                 IF processed.exc # ""
                 THEN [exc |-> processed.exc, field |-> marked, w |-> processed.w]
                 ELSE [exc |-> "",
                       field |-> [marked EXCEPT !.entries = Append(@, processed.field)],
                       w |-> processed.w]
             Bound(bound) ==
                 IF bound.exc # "" THEN [exc |-> bound.exc, field |-> marked, w |-> w]
                 ELSE Added(FieldProcess(w, bound.field, jsondata, data))
         IN Bound(NewField(field.unbound_field, EntryName(field, index), field.prefix,
                           IntValue(index)))

\* for d in items: self._add_entry(jsondata, d)
RECURSIVE AddEntries(_, _, _, _)
AddEntries(w, field, jsondata, items) ==
    IF items = <<>> THEN [exc |-> "", field |-> field, w |-> w]
    ELSE LET Next(added) ==
                 IF added.exc # "" THEN added
                 ELSE AddEntries(added.w, added.field, jsondata, Tail(items))
         IN Next(AddEntry(w, field, jsondata, Head(items)))

\* while len(self.entries) < self.min_entries: self._add_entry(jsondata)
RECURSIVE PadEntries(_, _, _)
PadEntries(w, field, jsondata) ==
    IF ~(Len(field.entries) < field.min_entries) THEN [exc |-> "", field |-> field, w |-> w]
    ELSE LET Next(added) ==
                 IF added.exc # "" THEN added
                 ELSE PadEntries(added.w, added.field, jsondata)
         IN Next(AddEntry(w, field, jsondata, unset_value))

\* A bug: the values are taken out of the list that holds them, so that a
\* default declared as a list is empty after the first process that used it.
ListProcessDrainsDefault(w, field, jsondata, data) ==
    LET f0 == [field EXCEPT !.process_errors = <<>>, !.entries = <<>>]
        fromDefault == data = unset_value \/ ~Truthy(data)
        values == IF fromDefault THEN CallDefault(field.default) ELSE data
        fromJson == Truthy(jsondata) /\ jsondata.t = "dict"
        jdata == IF fromJson /\ field.name \in DOMAIN jsondata.m
                 THEN jsondata.m[field.name]
                 ELSE NoneValue
        Drained(table) ==
            [i \in DOMAIN table |->
                IF table[i][1] = field.short_name
                THEN <<table[i][1],
                       [table[i][2] EXCEPT !.kwargs.default = ListValue(<<>>)]>>
                ELSE table[i]]
        drain == [w EXCEPT
                    !.unbound_fields =
                        [cls \in DOMAIN @ |->
                            IF @[cls] = None THEN None ELSE Some(Drained(@[cls].v))]]
        Pad(filled) ==
            IF filled.exc # "" THEN filled
            ELSE PadEntries(filled.w, filled.field, jsondata)
    IN Pad(IF fromJson
           THEN IF jdata.t = "list"
                THEN AddEntries(w, f0, NoneValue, jdata.items)
                ELSE [exc |-> "",
                      field |-> [f0 EXCEPT
                                    !.process_errors =
                                        Append(@, Message("Not a valid list value"))],
                      w |-> w]
           ELSE IF values.t = "list"
           THEN AddEntries(IF fromDefault /\ field.default.t = "list" THEN drain ELSE w,
                           IF fromDefault /\ field.default.t = "list"
                           THEN [f0 EXCEPT !.default = ListValue(<<>>)] ELSE f0,
                           jsondata, values.items)
           ELSE [exc |-> "TypeError", field |-> f0, w |-> w])

\* A bug: the entries of the previous process are kept.
ListProcessAppends(w, field, jsondata, data) ==
    LET f0 == [field EXCEPT !.process_errors = <<>>]
        values == IF data = unset_value \/ ~Truthy(data)
                  THEN CallDefault(field.default)
                  ELSE data
        fromJson == Truthy(jsondata) /\ jsondata.t = "dict"
        jdata == IF fromJson /\ field.name \in DOMAIN jsondata.m
                 THEN jsondata.m[field.name]
                 ELSE NoneValue
        Pad(filled) ==
            IF filled.exc # "" THEN filled
            ELSE PadEntries(filled.w, filled.field, jsondata)
    IN Pad(IF fromJson
           THEN \* process_jsondata: a list gives one entry per element
                IF jdata.t = "list"
                THEN AddEntries(w, f0, NoneValue, jdata.items)
                ELSE [exc |-> "",
                      field |-> [f0 EXCEPT
                                    !.process_errors =
                                        Append(@, Message("Not a valid list value"))],
                      w |-> w]
           ELSE IF values.t = "list"
           THEN AddEntries(w, f0, jsondata, values.items)
           ELSE [exc |-> "TypeError", field |-> f0, w |-> w])

\* ListField.process
ListProcess(w, field, jsondata, data) ==
    LET f0 == [field EXCEPT !.process_errors = <<>>, !.entries = <<>>]
        values == IF data = unset_value \/ ~Truthy(data)
                  THEN CallDefault(field.default)
                  ELSE data
        fromJson == Truthy(jsondata) /\ jsondata.t = "dict"
        jdata == IF fromJson /\ field.name \in DOMAIN jsondata.m
                 THEN jsondata.m[field.name]
                 ELSE NoneValue
        Pad(filled) ==
            IF filled.exc # "" THEN filled
            ELSE PadEntries(filled.w, filled.field, jsondata)
    IN Pad(IF fromJson
           THEN \* process_jsondata: a list gives one entry per element
                IF jdata.t = "list"
                THEN AddEntries(w, f0, NoneValue, jdata.items)
                ELSE [exc |-> "",
                      field |-> [f0 EXCEPT
                                    !.process_errors =
                                        Append(@, Message("Not a valid list value"))],
                      w |-> w]
           ELSE IF values.t = "list"
           THEN AddEntries(w, f0, jsondata, values.items)
           ELSE [exc |-> "TypeError", field |-> f0, w |-> w])

\* ListField.append_entry(data): self._add_entry(data=data)
AppendEntry(w, field, data) == AddEntry(w, field, NoneValue, data)

\* A bug: the decrement comes ahead of entries.pop().
PopEntryDecrementsFirst(field) ==
    IF field.entries = <<>>
    THEN [exc |-> "IndexError", field |-> [field EXCEPT !.last_index = @ - 1]]
    ELSE [exc |-> "",
          field |-> [field EXCEPT !.entries = SubSeq(@, 1, Len(@) - 1),
                                  !.last_index = @ - 1]]

\* ListField.pop_entry: entries.pop() raises IndexError on an empty list, ahead
\* of the decrement.
PopEntry(field) ==
    IF field.entries = <<>> THEN [exc |-> "IndexError", field |-> field]
    ELSE [exc |-> "",
          field |-> [field EXCEPT !.entries = SubSeq(@, 1, Len(@) - 1),
                                  !.last_index = @ - 1]]

RECURSIVE JsonNew(_, _, _, _, _, _, _)

\* ObjectField.process
ObjectProcess(w, field, jsondata, data) ==
    LET value == IF data = unset_value THEN CallDefault(field.default) ELSE data
        f0 == IF data = unset_value THEN [field EXCEPT !.obj = value] ELSE field
        nested == IF jsondata.t = "dict"
                  THEN IF field.name \in DOMAIN jsondata.m
                       THEN jsondata.m[field.name]
                       ELSE NoneValue
                  ELSE jsondata
        Enclose(made) ==
            IF made.exc # "" THEN [exc |-> made.exc, field |-> f0, w |-> made.w]
            ELSE [exc |-> "", field |-> [f0 EXCEPT !.json = Some(made.json)], w |-> made.w]
    IN Enclose(IF value.t = "dict"
               THEN JsonNew(w, field.json_class, nested, NoneValue, <<>>, NoneValue, value.m)
               ELSE JsonNew(w, field.json_class, nested, value, <<>>, NoneValue, <<>>))

\* field.process(jsondata, data), by the class of the field.
FieldProcess(w, field, jsondata, data) ==
    CASE field.type = "ListField" -> ListProcess(w, field, jsondata, data)
      [] field.type = "ObjectField" -> ObjectProcess(w, field, jsondata, data)
      [] OTHER -> ScalarProcess(field, jsondata, data) @@ [w |-> w]

\* A bug: an explicit value is taken before the attribute of obj.
SourceValueKwargsFirst(obj, kwargs, name) ==
    IF name \in DOMAIN kwargs THEN kwargs[name]
    ELSE IF obj.t = "object" /\ name \in DOMAIN obj.attrs THEN obj.attrs[name]
    ELSE unset_value

\* The value BaseJson.process hands to field.process: getattr(obj, name) when
\* obj has the attribute, else kwargs[name], else nothing (the field then takes
\* its default).
SourceValue(obj, kwargs, name) ==
    IF obj.t = "object" /\ name \in DOMAIN obj.attrs THEN obj.attrs[name]
    ELSE IF name \in DOMAIN kwargs THEN kwargs[name]
    ELSE unset_value

\* The loop of BaseJson.process over the fields from position i on.
RECURSIVE ProcessFields(_, _, _, _, _, _)
ProcessFields(w, json, jsondata, obj, kwargs, i) ==
    IF i > Len(json.fields) THEN [exc |-> "", json |-> json, w |-> w]
    ELSE LET name == json.fields[i][1]
             field == json.fields[i][2]
             data == SourceValue(obj, kwargs, name)
             Next(processed, updated) ==
                 IF processed.exc # ""
                 THEN [exc |-> processed.exc, json |-> updated, w |-> processed.w]
                 ELSE ProcessFields(processed.w, updated, jsondata, obj, kwargs, i + 1)
             Store(processed) ==
                 Next(processed, [json EXCEPT !.fields[i] = <<name, processed.field>>])
         IN Store(FieldProcess(w, field, jsondata, data))

\* BaseJson.process(jsondata, obj, data, **kwargs): the entries of kwargs
\* override those of data.
BaseJsonProcess(w, json, jsondata, obj, data, kwargs) ==
    ProcessFields(w, json, jsondata, obj,
                  IF data # NoneValue THEN kwargs @@ data.m ELSE kwargs, 1)

\* cls(jsondata, obj, prefix, data, **kwargs): JsonMeta.__call__, then
\* Json.__init__, which binds the fields of the table and processes them.
JsonNew(w, cls, jsondata, obj, prefix, data, kwargs) ==
    LET Init(built, made) ==
            IF made.exc # "" THEN [exc |-> made.exc, json |-> made.json, w |-> built]
            ELSE BaseJsonProcess(built, made.json, jsondata, obj, data, kwargs)
        Construct(built) ==
            Init(built, BaseJsonInit(cls, built.unbound_fields[cls].v, prefix,
                                     built.json_meta[cls].v))
    IN Construct(BuildCaches(w, cls))

\* BaseJson.data: name -> field.data
JsonData(json) ==
    [name \in {json.fields[i][1] : i \in DOMAIN json.fields} |->
        FieldData((CHOOSE p \in {json.fields[i] : i \in DOMAIN json.fields} :
                      p[1] = name)[2])]

\* field.data: a property of ListField (the data of the entries) and of
\* ObjectField (the data of the enclosed json).
FieldData(field) ==
    CASE field.type = "ListField" ->
            ListValue([i \in DOMAIN field.entries |-> FieldData(field.entries[i])])
      [] field.type = "ObjectField" -> DictValue(JsonData(field.json.v))
      [] OTHER -> field.data

RECURSIVE FieldErrors(_)

\* BaseJson.errors without its cache: name -> field.errors of the fields that
\* have errors.
JsonErrorsOf(json) ==
    [name \in {json.fields[i][1] : i \in {j \in DOMAIN json.fields :
                                            Truthy(FieldErrors(json.fields[j][2]))}} |->
        FieldErrors((CHOOSE p \in {json.fields[i] : i \in DOMAIN json.fields} :
                        p[1] = name)[2])]

\* field.errors: a list, or for an ObjectField the errors of the enclosed json.
FieldErrors(field) ==
    IF field.type = "ObjectField"
    THEN DictValue(JsonErrorsOf(field.json.v))
    ELSE ListValue(field.errors)

\* The loop of ListField.validate over the entries from position i on: the
\* errors of an entry that fails are appended as one item.
RECURSIVE ValidateEntries(_, _, _, _, _)
ValidateEntries(dicts, field, errors, log, i) ==
    IF i > Len(field.entries)
    THEN [exc |-> "", field |-> field, errors |-> errors, log |-> log]
    ELSE LET Next(checked, updated) ==
                 IF checked.exc # ""
                 THEN [exc |-> checked.exc, field |-> updated, errors |-> errors,
                       log |-> log \o checked.log]
                 ELSE ValidateEntries(dicts, updated,
                                      IF checked.ok THEN errors
                                      ELSE Append(errors, FieldErrors(checked.field)),
                                      log \o checked.log, i + 1)
             Store(checked) == Next(checked, [field EXCEPT !.entries[i] = checked.field])
         IN Store(FieldValidate(dicts, field.entries[i], <<>>))

\* A bug: the validators of the list are not run.
ListValidateEntriesOnly(dicts, field, extra_validators) ==
    LET Return(entries) ==
            [exc |-> entries.exc, ok |-> entries.exc = "" /\ entries.errors = <<>>,
             log |-> entries.log,
             field |-> [entries.field EXCEPT !.errors = entries.errors]]
    IN Return(ValidateEntries(dicts, field, ResetErrors(field), <<>>, 1))

\* ListField.validate
ListValidate(dicts, field, extra_validators) ==
    LET Return(entries, chain) ==
            [exc |-> chain.exc, ok |-> chain.exc = "" /\ chain.errors = <<>>,
             log |-> chain.log,
             field |-> [entries.field EXCEPT !.errors = chain.errors]]
        RunChain(entries) ==
            IF entries.exc # ""
            THEN [exc |-> entries.exc, ok |-> FALSE, log |-> entries.log,
                  field |-> [entries.field EXCEPT !.errors = entries.errors]]
            ELSE Return(entries,
                        RunValidationChain(entries.field, FieldData(entries.field),
                                           entries.errors,
                                           Chain(field.validators, extra_validators), 1,
                                           entries.log))
    IN RunChain(ValidateEntries(dicts, field, ResetErrors(field), <<>>, 1))

RECURSIVE JsonValidate(_, _)

\* A bug: the extra validators are ignored.
ObjectValidateAcceptsExtra(dicts, field, extra_validators) ==
    LET Return(checked) ==
            [exc |-> checked.exc, ok |-> checked.ok, log |-> checked.log,
             field |-> [field EXCEPT !.json = Some(checked.json)]]
    IN Return(JsonValidate(dicts, field.json.v))

\* A bug: the result of the enclosed json's validate is dropped.
ObjectValidateAlwaysTrue(dicts, field, extra_validators) ==
    IF extra_validators # <<>>
    THEN [exc |-> "TypeError", ok |-> FALSE, log |-> <<>>, field |-> field]
    ELSE LET Return(checked) ==
                 [exc |-> checked.exc, ok |-> TRUE, log |-> checked.log,
                  field |-> [field EXCEPT !.json = Some(checked.json)]]
         IN Return(JsonValidate(dicts, field.json.v))

\* ObjectField.validate
ObjectValidate(dicts, field, extra_validators) ==
    IF extra_validators # <<>>
    THEN [exc |-> "TypeError", ok |-> FALSE, log |-> <<>>, field |-> field]
    ELSE LET Return(checked) ==
                 [exc |-> checked.exc, ok |-> checked.ok, log |-> checked.log,
                  field |-> [field EXCEPT !.json = Some(checked.json)]]
         IN Return(JsonValidate(dicts, field.json.v))

\* field.validate(data, extra_validators), by the class of the field.
FieldValidate(dicts, field, extra_validators) ==
    CASE field.type = "ListField" -> ListValidate(dicts, field, extra_validators)
      [] field.type = "ObjectField" -> ObjectValidate(dicts, field, extra_validators)
      [] OTHER -> ScalarValidate(field, extra_validators)

\* The return of one field.validate call, for the record of the loop.
Validated(name, ok) == [field |-> name, hook |-> "validate", ok |-> ok]

\* A bug: the loop ends at the first field that fails.
RECURSIVE ValidateFieldsShortCircuit(_, _, _, _, _, _)
ValidateFieldsShortCircuit(dicts, json, extra_validators, success, log, i) ==
    IF i > Len(json.fields) \/ ~success
    THEN [exc |-> "", json |-> json, ok |-> success, log |-> log]
    ELSE LET name == json.fields[i][1]
             extra == IF name \in DOMAIN extra_validators
                      THEN extra_validators[name]
                      ELSE <<>>
             Next(checked, updated) ==
                 IF checked.exc # ""
                 THEN [exc |-> checked.exc, json |-> updated, ok |-> FALSE,
                       log |-> log \o checked.log]
                 ELSE ValidateFieldsShortCircuit(dicts, updated, extra_validators,
                                     success /\ checked.ok,
                                     (log \o checked.log) \o <<Validated(name, checked.ok)>>,
                                     i + 1)
             Store(checked) ==
                 Next(checked, [json EXCEPT !.fields[i] = <<name, checked.field>>])
         IN Store(FieldValidate(dicts, json.fields[i][2], extra))

\* The loop of BaseJson.validate over the fields from position i on.
RECURSIVE ValidateFields(_, _, _, _, _, _)
ValidateFields(dicts, json, extra_validators, success, log, i) ==
    IF i > Len(json.fields)
    THEN [exc |-> "", json |-> json, ok |-> success, log |-> log]
    ELSE LET name == json.fields[i][1]
             extra == IF name \in DOMAIN extra_validators
                      THEN extra_validators[name]
                      ELSE <<>>
             Next(checked, updated) ==
                 IF checked.exc # ""
                 THEN [exc |-> checked.exc, json |-> updated, ok |-> FALSE,
                       log |-> log \o checked.log]
                 ELSE ValidateFields(dicts, updated, extra_validators,
                                     success /\ checked.ok,
                                     (log \o checked.log) \o <<Validated(name, checked.ok)>>,
                                     i + 1)
             Store(checked) ==
                 Next(checked, [json EXCEPT !.fields[i] = <<name, checked.field>>])
         IN Store(FieldValidate(dicts, json.fields[i][2], extra))

\* A bug: validate keeps the cached error view.
InvalidateErrorsKeep(json) == json

\* self._errors = None, at the head of BaseJson.validate.
InvalidateErrors(json) == [json EXCEPT !.errors = None]

\* BaseJson.validate(extra_validators): the cached errors are dropped first.
BaseJsonValidate(dicts, json, extra_validators) ==
    ValidateFields(dicts, InvalidateErrors(json), extra_validators, TRUE, <<>>, 1)

\* 'validate_%s' % name
InlineName(name) == <<"v", "a", "l", "i", "d", "a", "t", "e", "_">> \o name

\* What calling a class attribute as a validator does: a function behaves as
\* declared, another value is not callable.
InlineBehaviour(value) ==
    IF value.py = "function" THEN value.behaviour
    ELSE Behaviour("TypeError", <<>>, "always")

\* A bug: the validate_<name> attributes of the class are not looked up.
JsonValidateNoInline(dicts, json) == BaseJsonValidate(dicts, json, <<>>)

\* Json.validate: the validate_<name> attributes of the class become the extra
\* validators of their fields.
JsonValidate(dicts, json) ==
    LET names == {json.fields[i][1] : i \in DOMAIN json.fields}
        inline == [name \in names |-> Lookup(dicts, Mro[json.cls], InlineName(name))]
        extra == [name \in {n \in names : inline[n] # None} |->
                     <<InlineBehaviour(inline[name].v)>>]
    IN BaseJsonValidate(dicts, json, extra)

RECURSIVE JsonErrors(_)

\* Reading field.errors: the value read, and the field after the read (reading
\* the errors of an ObjectField reads, and so caches, those of the enclosed json).
ReadFieldErrors(field) ==
    IF field.type = "ObjectField"
    THEN LET Enclosed(read) ==
                 [field |-> [field EXCEPT !.json = Some(read.json)],
                  value |-> DictValue(read.view)]
         IN Enclosed(JsonErrors(field.json.v))
    ELSE [field |-> field, value |-> ListValue(field.errors)]

\* dict((name, f.errors) for name, f in iteritems(self._fields) if f.errors),
\* over the fields from position i on.
RECURSIVE CollectErrors(_, _, _)
CollectErrors(json, view, i) ==
    IF i > Len(json.fields) THEN [json |-> json, view |-> view]
    ELSE LET name == json.fields[i][1]
             Advance(read) ==
                 CollectErrors([json EXCEPT !.fields[i] = <<name, read.field>>],
                               IF Truthy(read.value) THEN view @@ (name :> read.value)
                               ELSE view,
                               i + 1)
         IN Advance(ReadFieldErrors(json.fields[i][2]))

\* BaseJson.errors: the mapping read, and the container after the read (the
\* mapping is computed when self._errors is None, and kept).
JsonErrors(json) ==
    IF json.errors # None THEN [json |-> json, view |-> json.errors.v]
    ELSE LET Cache(read) ==
                 [json |-> [read.json EXCEPT !.errors = Some(read.view)],
                  view |-> read.view]
         IN Cache(CollectErrors(json, <<>>, 1))

RECURSIVE JsonPopulate(_, _, _)

\* A bug: the object kept in _obj is not used when obj.<name> is missing.
ObjectPopulateNoFallback(field, obj, name) ==
    LET found == IF name \in DOMAIN obj.attrs THEN obj.attrs[name] ELSE NoneValue
        Written(nested) ==
            [exc |-> nested.exc,
             obj |-> SetAttribute(obj, name, nested.obj),
             field |-> [field EXCEPT !.json = Some(nested.json)]]
    IN IF found = NoneValue
       THEN [exc |-> "TypeError", obj |-> obj, field |-> field]
       ELSE Written(JsonPopulate(field.json.v, found, 1))

\* ObjectField.populate_obj: the enclosed json is written onto obj.<name>, or,
\* when that is missing or None, onto the object process kept in _obj, which
\* obj.<name> is then set to.  The object written to is one object: what is
\* written shows in obj.<name> and, when it is _obj, in _obj.
ObjectPopulate(field, obj, name) ==
    LET found == IF name \in DOMAIN obj.attrs THEN obj.attrs[name] ELSE NoneValue
        candidate == IF found = NoneValue THEN field.obj ELSE found
        Written(nested) ==
            [exc |-> nested.exc,
             obj |-> SetAttribute(obj, name, nested.obj),
             field |-> [field EXCEPT !.json = Some(nested.json),
                                     !.obj = IF found = NoneValue THEN nested.obj
                                             ELSE field.obj]]
    IN IF candidate = NoneValue
       THEN [exc |-> "TypeError", obj |-> obj, field |-> field]
       ELSE IF candidate.t # "object"
       THEN [exc |-> "AttributeError",
             obj |-> IF found = NoneValue THEN SetAttribute(obj, name, candidate) ELSE obj,
             field |-> field]
       ELSE Written(JsonPopulate(field.json.v, candidate, 1))

\* field.populate_obj(obj, name), by the class of the field.
FieldPopulate(field, obj, name) ==
    CASE field.type = "ListField" ->
            [exc |-> "NotImplementedError", obj |-> obj, field |-> field]
      [] field.type = "ObjectField" -> ObjectPopulate(field, obj, name)
      [] OTHER -> [exc |-> "", obj |-> SetAttribute(obj, name, field.data), field |-> field]

\* BaseJson.populate_obj: the loop over the fields from position i on.
JsonPopulate(json, obj, i) ==
    IF i > Len(json.fields) THEN [exc |-> "", obj |-> obj, json |-> json]
    ELSE LET name == json.fields[i][1]
             Advance(written) ==
                 IF written.exc # ""
                 THEN [exc |-> written.exc, obj |-> written.obj, json |-> json]
                 ELSE JsonPopulate([json EXCEPT !.fields[i] = <<name, written.field>>],
                                   written.obj, i + 1)
         IN Advance(FieldPopulate(json.fields[i][2], obj, name))

NoInstance == [cls |-> "", fields |-> <<>>, rebuilt |-> FALSE]

\* No field and no container: the state of a run that binds none.
NoField == [type |-> ""]

NoJson ==
    [cls |-> "", meta |-> <<>>, prefix |-> <<>>, errors |-> None, fields |-> <<>>,
     masked |-> {}]

\* The outcome of a call: the operation, the exception that left it ("" when it
\* returned), what validate returned, the calls validate made, the process
\* errors the field had before the call and the extra validators it was given.
Outcome(op, exc, ok, log, process_errors, extra) ==
    [op |-> op, exc |-> exc, ok |-> ok, log |-> log, process_errors |-> process_errors,
     extra |-> extra]

NoCall == Outcome("", "", FALSE, <<>>, <<>>, <<>>)

\* The outcome of reading json.errors: the cache the read found (None when
\* there was none) and the mapping it returned.
ErrorsRead(cached, view) ==
    [op |-> "errors", exc |-> "", ok |-> FALSE, log |-> <<>>, process_errors |-> <<>>,
     extra |-> <<>>, cached |-> cached, view |-> view]

(***************************************************************************)
(* The operations on a class.                                              *)
(***************************************************************************)
\* A bug: assigning Meta keeps the synthesized Meta.
SetAttrKeepsMeta(cls, name, value) ==
    /\ json_meta' = json_meta
    /\ unbound_fields' =
           IF SetAttrDropsFields(name, value)
           THEN [unbound_fields EXCEPT ![cls] = None]
           ELSE unbound_fields
    /\ class_dict' = [class_dict EXCEPT ![cls] = (name :> value) @@ @]
    /\ constructed' = NoInstance
    /\ fault' = ""
    /\ UNCHANGED instanceVars

\* JsonMeta.__setattr__(cls, name, value)
SetAttr(cls, name, value) ==
    /\ json_meta' = IF name = <<"M", "e", "t", "a">> THEN [json_meta EXCEPT ![cls] = None] ELSE json_meta
    /\ unbound_fields' =
           IF SetAttrDropsFields(name, value)
           THEN [unbound_fields EXCEPT ![cls] = None]
           ELSE unbound_fields
    /\ class_dict' = [class_dict EXCEPT ![cls] = (name :> value) @@ @]
    /\ constructed' = NoInstance
    /\ fault' = ""
    /\ UNCHANGED instanceVars

\* cls.name = StringField(): a new UnboundField is created, then assigned.
Declare(cls, name) ==
    /\ creation_counter < MaxSeq
    /\ creation_counter' = creation_counter + 1
    /\ SetAttr(cls, name, UnboundField(creation_counter + 1))

\* cls.name = cls.other, where cls.other is a field: the same UnboundField.
Alias(cls, name, other) ==
    /\ name # other
    /\ Lookup(class_dict, Mro[cls], other) # None
    /\ HasJsonField(Lookup(class_dict, Mro[cls], other).v)
    /\ SetAttr(cls, name, Lookup(class_dict, Mro[cls], other).v)
    /\ UNCHANGED creation_counter

\* cls.name = 5
AssignPlain(cls, name) ==
    /\ SetAttr(cls, name, PlainValue)
    /\ UNCHANGED creation_counter

\* JsonMeta.__delattr__(cls, name): type.__delattr__ raises AttributeError when
\* cls.__dict__ has no such name, after the table was dropped.
DelAttr(cls, name) ==
    /\ unbound_fields' =
           IF DelAttrDropsFields(name)
           THEN [unbound_fields EXCEPT ![cls] = None]
           ELSE unbound_fields
    /\ IF name \in DOMAIN class_dict[cls]
       THEN /\ class_dict' =
                   [class_dict EXCEPT
                       ![cls] = [n \in DOMAIN @ \ {name} |-> @[n]]]
            /\ fault' = ""
       ELSE /\ class_dict' = class_dict
            /\ fault' = "AttributeError"
    /\ constructed' = NoInstance
    /\ UNCHANGED <<creation_counter, json_meta>>
    /\ UNCHANGED instanceVars

\* JsonMeta.__call__(cls): builds what is None, then constructs the instance
\* from cls._unbound_fields (Json.__init__).
Call(cls) ==
    LET fields == IF unbound_fields[cls] = None
                  THEN BuildFields(class_dict, cls)
                  ELSE unbound_fields[cls].v
    IN /\ unbound_fields' = [unbound_fields EXCEPT ![cls] = Some(fields)]
       /\ json_meta' =
              IF json_meta[cls] = None
              THEN [json_meta EXCEPT ![cls] = Some(BuildMeta(class_dict, cls))]
              ELSE json_meta
       /\ constructed' =
              [cls |-> cls, fields |-> fields, rebuilt |-> unbound_fields[cls] = None]
       /\ fault' = ""
       /\ UNCHANGED <<creation_counter, class_dict>>
       /\ UNCHANGED instanceVars

(***************************************************************************)
(* SpecMeta: class A(Json): a = StringField(); class B(A): b = StringField()*)
(* then any assignments, deletions and constructions.                      *)
(***************************************************************************)
InitMeta ==
    /\ creation_counter = 2
    /\ class_dict =
           [Json |-> (<<"M", "e", "t", "a">> :> MetaClass("DefaultMeta")),
            A |-> (<<"a">> :> UnboundField(1)),
            B |-> (<<"b">> :> UnboundField(2))]
    /\ unbound_fields = [cls \in Classes |-> None]
    /\ json_meta = [cls \in Classes |-> None]
    /\ constructed = NoInstance
    /\ fault = ""
    /\ bound_field = NoField
    /\ instance = NoJson
    /\ last = NoCall
    /\ history = <<>>

NextMeta ==
    \/ \E cls \in Classes, name \in FieldNames : Declare(cls, name)
    \/ \E cls \in Classes, name \in FieldNames, other \in FieldNames :
           Alias(cls, name, other)
    \/ \E cls \in Classes, name \in FieldNames : AssignPlain(cls, name)
    \/ \E cls \in Classes, name \in FieldNames : DelAttr(cls, name)
    \/ \E cls \in Classes : Call(cls)

SpecMeta == InitMeta /\ [][NextMeta]_vars

(***************************************************************************)
(* SpecInherit:                                                            *)
(*   class A(Json): a = StringField()                                      *)
(*   class M(Json): b = StringField()                                      *)
(*   class B(A): pass                                                      *)
(*   class D(A, M): pass                                                   *)
(* then fields are declared on the subtypes B and D, and the four classes  *)
(* are constructed.                                                        *)
(***************************************************************************)
Subtypes == {"B", "D"}

InitInherit ==
    /\ creation_counter = 2
    /\ class_dict =
           [Json |-> (<<"M", "e", "t", "a">> :> MetaClass("DefaultMeta")),
            A |-> (<<"a">> :> UnboundField(1)),
            M |-> (<<"b">> :> UnboundField(2)),
            B |-> <<>>,
            D |-> <<>>]
    /\ unbound_fields = [cls \in {"A", "M"} \cup Subtypes |-> None]
    /\ json_meta = [cls \in {"A", "M"} \cup Subtypes |-> None]
    /\ constructed = NoInstance
    /\ fault = ""
    /\ bound_field = NoField
    /\ instance = NoJson
    /\ last = NoCall
    /\ history = <<>>

NextInherit ==
    \/ \E cls \in Subtypes, name \in FieldNames : Declare(cls, name)
    \/ \E cls \in {"A", "M"} \cup Subtypes : Call(cls)

SpecInherit == InitInherit /\ [][NextInherit]_vars

(***************************************************************************)
(* SpecConfig (after tests/jsons.py, MetaTest and test_class_meta_reassign):*)
(*   class A(Json): Meta = MetaA; a = StringField()                        *)
(*   class M(Json): Meta = MetaM; b = StringField()                        *)
(*   class B(A): pass                                                      *)
(*   class D(A, M): Meta = MetaD                                           *)
(* then cls.Meta = ..., del cls.Meta and constructions of A, B and D in    *)
(* any order.                                                              *)
(***************************************************************************)
\* The Meta classes a class is assigned: plain classes without bases, each
\* declared for one class.
MetaFragments ==
    [A |-> {"MetaA", "MetaA2"}, B |-> {}, D |-> {"MetaD", "MetaD2"}]

\* The attributes the bodies of the Meta classes define.
MetaAttrs ==
    [MetaA |-> [foo |-> 9],
     MetaA2 |-> [bar |-> 1],
     MetaM |-> [foo |-> 12, bar |-> 8],
     MetaD |-> [quux |-> 42],
     MetaD2 |-> [foo |-> 3],
     DefaultMeta |-> [locales |-> 0, foo |-> 0]]

\* getattr(json.meta, key): the class type('Meta', bases, {}) has the bases, in
\* their order, as its MRO; None stands for AttributeError.
RECURSIVE MetaGet(_, _)
MetaGet(bases, key) ==
    IF bases = <<>> THEN None
    ELSE IF key \in DOMAIN MetaAttrs[Head(bases)]
    THEN Some(MetaAttrs[Head(bases)][key])
    ELSE MetaGet(Tail(bases), key)

\* cls.Meta = m
AssignMeta(cls, m) ==
    /\ SetAttr(cls, <<"M", "e", "t", "a">>, MetaClass(m))
    /\ UNCHANGED creation_counter

\* json = cls()
NewConfig(cls) ==
    \E made \in {JsonNew(World(class_dict, unbound_fields, json_meta), cls, NoneValue,
                         NoneValue, <<>>, NoneValue, <<>>)} :
       /\ unbound_fields' = made.w.unbound_fields
       /\ json_meta' = made.w.json_meta
       /\ instance' = made.json
       /\ fault' = made.exc
       /\ UNCHANGED <<creation_counter, class_dict, constructed, bound_field, last, history>>

InitConfig ==
    /\ creation_counter = 2
    /\ class_dict =
           [Json |-> (<<"M", "e", "t", "a">> :> MetaClass("DefaultMeta")),
            A |-> (<<"a">> :> UnboundField(1)) @@ (<<"M", "e", "t", "a">> :> MetaClass("MetaA")),
            M |-> (<<"b">> :> UnboundField(2)) @@ (<<"M", "e", "t", "a">> :> MetaClass("MetaM")),
            B |-> <<>>,
            D |-> (<<"M", "e", "t", "a">> :> MetaClass("MetaD"))]
    /\ unbound_fields = [cls \in DOMAIN MetaFragments |-> None]
    /\ json_meta = [cls \in DOMAIN MetaFragments |-> None]
    /\ constructed = NoInstance
    /\ fault = ""
    /\ bound_field = NoField
    /\ instance = NoJson
    /\ last = NoCall
    /\ history = <<>>

NextConfig ==
    \/ \E cls \in DOMAIN MetaFragments : \E m \in MetaFragments[cls] : AssignMeta(cls, m)
    \/ \E cls \in DOMAIN MetaFragments : DelAttr(cls, <<"M", "e", "t", "a">>)
    \/ \E cls \in DOMAIN MetaFragments : NewConfig(cls)

SpecConfig == InitConfig /\ [][NextConfig]_vars

(***************************************************************************)
(* SpecCounter: class A(Json): a = StringField()                           *)
(* then A.name = StringField(default=...) or IntegerField(default=...),    *)
(* del A.name, and A.name.bind(json, name) in any order.                   *)
(***************************************************************************)
CounterDefaults == {NoneValue, StrValue(<<"d">>)}

\* A bug: the class attribute is copied but not advanced.
UnboundInitStale(counter, field_class, kwargs) ==
    [counter |-> counter, unbound |-> MakeUnbound(counter, field_class, kwargs)]

\* UnboundField.__init__: advances UnboundField.creation_counter, then copies
\* it to the instance.
UnboundInit(counter, field_class, kwargs) ==
    [counter |-> counter + 1, unbound |-> MakeUnbound(counter + 1, field_class, kwargs)]

\* A.name = field_class(default=default)
CreateField(name, field_class, default) ==
    /\ creation_counter < MaxSeq
    /\ \E made \in {UnboundInit(creation_counter, field_class,
                                [DefaultKwargs EXCEPT !.default = default])} :
           /\ creation_counter' = made.counter
           /\ SetAttr("A", name, made.unbound)

\* A.name.bind(json, name): UnboundField.bind calls the field class with the
\* kept kwargs and reads the UnboundField only.
BindField(name) ==
    /\ name \in DOMAIN class_dict["A"]
    /\ bound_field' = NewField(class_dict["A"][name], name, <<>>, NoneValue).field
    /\ last' = Outcome("bind", "", FALSE, <<>>, <<>>, <<>>)
    /\ UNCHANGED <<metaVars, fault, instance, history>>

InitCounter ==
    /\ creation_counter = 1
    /\ class_dict =
           [Json |-> (<<"M", "e", "t", "a">> :> MetaClass("DefaultMeta")),
            A |-> (<<"a">> :> UnboundField(1))]
    /\ unbound_fields = [cls \in {"A"} |-> None]
    /\ json_meta = [cls \in {"A"} |-> None]
    /\ constructed = NoInstance
    /\ fault = ""
    /\ bound_field = NoField
    /\ instance = NoJson
    /\ last = NoCall
    /\ history = <<>>

NextCounter ==
    \/ \E name \in FieldNames, field_class \in {StringField, IntegerField},
          default \in CounterDefaults : CreateField(name, field_class, default)
    \/ \E name \in FieldNames : DelAttr("A", name)
    \/ \E name \in FieldNames : BindField(name)

SpecCounter == InitCounter /\ [][NextCounter]_vars

(***************************************************************************)
(* SpecCache (after tests/jsons.py, test_monkeypatch):                     *)
(*   class A(Json): a = StringField()                                      *)
(* then A.name = StringField(), A.name = 5 and del A.name for the names a, *)
(* b and _m, and constructions of A, in any order.                         *)
(***************************************************************************)
CacheNames == FieldNames \cup {<<"_", "m">>}

NextCache ==
    \/ \E name \in CacheNames : Declare("A", name)
    \/ \E name \in CacheNames : AssignPlain("A", name)
    \/ \E name \in CacheNames : DelAttr("A", name)
    \/ Call("A")

SpecCache == InitCounter /\ [][NextCache]_vars

(***************************************************************************)
(* SpecField: class F(Json): a = P(validators=[...]), where P subclasses    *)
(* IntegerField with some pre_validate and post_validate; the field F().a  *)
(* is processed and validated with extra validators.                       *)
(***************************************************************************)
\* A message that names the callable that raised it and its position.
NumberedMessage(text, i) == [t |-> "msg", text |-> text, at |-> i]

\* What a validator may do: return, raise ValueError(message) (a soft failure),
\* raise StopValidation() or StopValidation(message) (a hard stop).
ValidatorKinds == {"pass", "soft", "stop", "stopmsg"}

MakeValidator(kind, origin, i) ==
    CASE kind = "pass" -> Pass
      [] kind = "soft" -> Behaviour("ValueError", <<NumberedMessage(origin, i)>>, "always")
      [] kind = "stop" -> Behaviour("StopValidation", <<>>, "always")
      [] kind = "stopmsg" ->
            Behaviour("StopValidation", <<NumberedMessage(origin, i)>>, "always")

\* validators=[...]: the sequences of at most MaxValidators validators.
DeclaredValidators ==
    UNION {{[i \in 1..n |-> MakeValidator(kinds[i], "declared", i)] :
               kinds \in [1..n -> ValidatorKinds]} : n \in 0..MaxValidators}

\* pre_validate returns or raises like a validator.
PreValidates == {MakeValidator(kind, "pre", 0) : kind \in ValidatorKinds}

\* The extra validators Json.validate passes: none, or the one inline validator.
ExtraValidators ==
    {<<>>} \cup {<<MakeValidator(kind, "extra", 1)>> : kind \in ValidatorKinds}

\* post_validate returns, raises ValueError, or raises it when the chain was
\* stopped.
PostValidates ==
    {Pass,
     Behaviour("ValueError", <<NumberedMessage("post", 0)>>, "always"),
     Behaviour("ValueError", <<NumberedMessage("post", 0)>>, "stopped")}

\* The inputs of process: jsondata is None or a dict, data is unset or a value.
FieldJsondata ==
    {NoneValue,
     DictValue(<<"a">> :> StrValue(<<"5">>)),
     DictValue(<<"a">> :> StrValue(<<"x">>))}

FieldDataValues == {unset_value, IntValue(7)}

\* field.process(jsondata, data)
ProcessCall(jsondata, data) ==
    LET processed == ScalarProcess(bound_field, jsondata, data)
    IN /\ bound_field' = processed.field
       /\ last' = Outcome("process", processed.exc, FALSE, <<>>,
                          bound_field.process_errors, <<>>)
       /\ UNCHANGED <<metaVars, fault, instance, history>>

\* field.validate(json, extra_validators)
ValidateCall(extra_validators) ==
    LET checked == ScalarValidate(bound_field, extra_validators)
    IN /\ bound_field' = checked.field
       /\ last' = Outcome("validate", checked.exc, checked.ok, checked.log,
                          bound_field.process_errors, extra_validators)
       /\ UNCHANGED <<metaVars, fault, instance, history>>

\* F(): the field is bound and processed without input.
InitField ==
    /\ creation_counter = 1
    /\ class_dict = [Json |-> (<<"M", "e", "t", "a">> :> MetaClass("DefaultMeta"))]
    /\ unbound_fields = <<>>
    /\ json_meta = <<>>
    /\ constructed = NoInstance
    /\ fault = ""
    /\ \E pre \in PreValidates, post \in PostValidates, validators \in DeclaredValidators :
           bound_field =
                  ScalarProcess(
                      NewField(MakeUnbound(1, FieldClass("IntegerField", pre, post),
                                           [DefaultKwargs EXCEPT !.validators = validators]),
                               <<"a">>, <<>>, NoneValue).field,
                      NoneValue, unset_value).field
    /\ instance = NoJson
    /\ last = NoCall
    /\ history = <<>>

NextField ==
    \/ \E jsondata \in FieldJsondata, data \in FieldDataValues : ProcessCall(jsondata, data)
    \/ \E extra_validators \in ExtraValidators : ValidateCall(extra_validators)

SpecField == InitField /\ [][NextField]_vars

(***************************************************************************)
(* SpecJson:                                                               *)
(*   class Inner(Json): x = StringField(validators=[required])             *)
(*   class F(Json):                                                        *)
(*       n = IntegerField(validators=[required])                           *)
(*       l = ListField(IntegerField(validators=[required]))                *)
(*       o = ObjectField(Inner)                                            *)
(*       def validate_l(json, field): (raises ValueError on an empty list) *)
(* F is constructed from input, processed again and validated.             *)
(***************************************************************************)
\* A validator like DataRequired: raises ValueError(message) if field.data is falsy.
Required(message) == Behaviour("ValueError", <<Message(message)>>, "falsy")

JsonClasses == {"Inner", "F"}

JsonClassDict ==
    [Json |-> (<<"M", "e", "t", "a">> :> MetaClass("DefaultMeta")),
     Inner |->
        (<<"x">> :> MakeUnbound(1, StringField,
                                [DefaultKwargs EXCEPT !.validators = <<Required("x required")>>])),
     F |->
        (<<"n">> :> MakeUnbound(2, IntegerField,
                                [DefaultKwargs EXCEPT
                                    !.validators = <<Required("n required")>>]))
        @@ (<<"l">> :> MakeUnbound(4, ListField,
                                   [DefaultKwargs EXCEPT
                                       !.default = ListValue(<<>>),
                                       !.unbound_field =
                                           MakeUnbound(3, IntegerField,
                                                       [DefaultKwargs EXCEPT
                                                           !.validators =
                                                               <<Required("entry required")>>])]))
        @@ (<<"o">> :> MakeUnbound(5, ObjectField,
                                   [DefaultKwargs EXCEPT !.json_class = "Inner"]))
        @@ (InlineName(<<"l">>) :> FunctionValue(Required("l is empty")))]

\* An entry of an input map that may be missing: no entry, or one of the values
\* under the name.
Optional(name, values) == {<<>>} \cup {name :> value : value \in values}

\* The inputs of a construction and of process: None, or a map with an entry
\* under some of the names.
JsonInputs ==
    {NoneValue} \cup
    {DictValue((n @@ l) @@ o) :
        n \in Optional(<<"n">>, {IntValue(1), StrValue(<<"x">>)}),
        l \in Optional(<<"l">>, {ListValue(<<IntValue(1)>>),
                                   ListValue(<<IntValue(1), IntValue(0)>>)}),
        o \in Optional(<<"o">>, {DictValue(<<"x">> :> StrValue(<<"a">>))})}

\* The errors validate left on a field: its own, and those of the entries of a
\* list and of the fields of an enclosed json.
RECURSIVE ErrorsLeft(_)
ErrorsLeft(field) ==
    CASE field.type = "ListField" ->
            [errors |-> field.errors,
             entries |-> [i \in DOMAIN field.entries |-> ErrorsLeft(field.entries[i])]]
      [] field.type = "ObjectField" ->
            [errors |-> FieldErrors(field),
             entries |-> [i \in DOMAIN field.json.v.fields |->
                             ErrorsLeft(field.json.v.fields[i][2])]]
      [] OTHER -> [errors |-> field.errors, entries |-> <<>>]

\* json = F(jsondata); a construction that raises leaves json as it was.
New(jsondata) ==
    \E made \in {JsonNew(World(class_dict, unbound_fields, json_meta), "F", jsondata,
                         NoneValue, <<>>, NoneValue, <<>>)} :
       /\ unbound_fields' = made.w.unbound_fields
       /\ json_meta' = made.w.json_meta
       /\ instance' = IF made.exc = "" THEN made.json ELSE instance
       /\ history' = IF made.exc = "" THEN <<>> ELSE history
       /\ last' = Outcome("new", made.exc, FALSE, <<>>, <<>>, <<>>)
       /\ UNCHANGED <<creation_counter, class_dict, constructed, fault, bound_field>>

\* json.process(jsondata)
Process(jsondata) ==
    /\ instance # NoJson
    /\ \A i \in DOMAIN instance.fields :
           instance.fields[i][2].type = "ListField"
               => instance.fields[i][2].last_index < MaxLastIndex
    /\ \E processed \in {BaseJsonProcess(World(class_dict, unbound_fields, json_meta),
                                          instance, jsondata, NoneValue, NoneValue, <<>>)} :
       /\ unbound_fields' = processed.w.unbound_fields
       /\ json_meta' = processed.w.json_meta
       /\ instance' = processed.json
       /\ history' = <<>>
       /\ last' = Outcome("process", processed.exc, FALSE, <<>>, <<>>, <<>>)
       /\ UNCHANGED <<creation_counter, class_dict, constructed, fault, bound_field>>

\* json.validate()
Validate ==
    /\ instance # NoJson
    /\ Len(history) < MaxValidateCalls
    /\ \E checked \in {JsonValidate(class_dict, instance)} :
       /\ instance' = checked.json
       /\ history' =
              Append(history,
                     [exc |-> checked.exc, ok |-> checked.ok,
                      errors |-> [i \in DOMAIN checked.json.fields |->
                                     ErrorsLeft(checked.json.fields[i][2])]])
       /\ last' = Outcome("validate", checked.exc, checked.ok, checked.log, <<>>, <<>>)
       /\ UNCHANGED <<metaVars, fault, bound_field>>

\* json.errors
ReadErrors ==
    /\ instance # NoJson
    /\ \E read \in {JsonErrors(instance)} :
       /\ instance' = read.json
       /\ last' = ErrorsRead(instance.errors, read.view)
    /\ UNCHANGED <<metaVars, fault, bound_field, history>>

InitJson ==
    /\ creation_counter = 5
    /\ class_dict = JsonClassDict
    /\ unbound_fields = [cls \in JsonClasses |-> None]
    /\ json_meta = [cls \in JsonClasses |-> None]
    /\ constructed = NoInstance
    /\ fault = ""
    /\ bound_field = NoField
    /\ instance = NoJson
    /\ last = NoCall
    /\ history = <<>>

NextJson ==
    \/ \E jsondata \in JsonInputs : New(jsondata)
    \/ \E jsondata \in JsonInputs : Process(jsondata)
    \/ Validate
    \/ ReadErrors

SpecJson == InitJson /\ [][NextJson]_vars

(***************************************************************************)
(* SpecList:                                                               *)
(*   class L(Json):                                                        *)
(*       a = ListField(IntegerField(validators=[required]),                *)
(*                     validators=..., min_entries=..., max_entries=...)   *)
(*       def validate_a(json, field): ...        (in some of the classes)  *)
(* L is constructed with a prefix, from input or from values; the list is  *)
(* processed again, entries are appended and popped, L is validated.       *)
(***************************************************************************)
\* The declarations of min_entries, max_entries and default: none of them; 0, 0
\* and the list [9]; or 2, 3 and no default.
EntryLimits ==
    {<<0, NoneValue, ListValue(<<>>)>>,
     <<0, IntValue(0), ListValue(<<IntValue(9)>>)>>,
     <<2, IntValue(3), ListValue(<<>>)>>}

\* The validators of the list, as <<declared, class body>>: none; or a declared
\* validator and a validate_a in the class body that both reject an empty list.
ListValidators ==
    {<<<<>>, <<>>>>,
     <<<<Required("a is empty")>>,
       InlineName(<<"a">>) :> FunctionValue(Required("a is empty inline"))>>}

ListClassDict(limits, validators, inline) ==
    [Json |-> (<<"M", "e", "t", "a">> :> MetaClass("DefaultMeta")),
     L |->
        (<<"a">> :> MakeUnbound(2, ListField,
                                [DefaultKwargs EXCEPT
                                    !.default = limits[3],
                                    !.validators = validators,
                                    !.min_entries = limits[1],
                                    !.max_entries = limits[2],
                                    !.unbound_field =
                                        MakeUnbound(1, IntegerField,
                                                    [DefaultKwargs EXCEPT
                                                        !.validators =
                                                            <<Required("entry required")>>])]))
        @@ inline]

\* The prefix argument of a construction.
Prefixes == {<<>>, <<"p">>}

\* The values a list is given: one, or four of them.
ListValues ==
    {ListValue(<<IntValue(1)>>),
     ListValue(<<IntValue(1), IntValue(0), IntValue(1), IntValue(1)>>)}

\* The arguments of a construction and of process, as <<jsondata, kwargs>>:
\* values for a and no input; or an input that is empty, or holds nothing under
\* the name of the list (key), without and with a value for a, or holds under
\* that name a string or a list of one, two or four elements.
ListArguments(key) ==
    {<<NoneValue, <<>>>>, <<DictValue(<<>>), <<>>>>}
    \cup {<<NoneValue, <<"a">> :> values>> : values \in ListValues}
    \cup {<<DictValue(<<"o">> :> IntValue(1)), <<>>>>,
          <<DictValue(<<"o">> :> IntValue(1)), <<"a">> :> ListValue(<<IntValue(1)>>)>>}
    \cup {<<DictValue(key :> value), <<>>>> :
              value \in {StrValue(<<"5">>),
                         ListValue(<<IntValue(5)>>),
                         ListValue(<<IntValue(1), StrValue(<<"x">>)>>),
                         ListValue(<<IntValue(1), IntValue(0), IntValue(1), IntValue(1)>>)}}

\* The outcome of a call on the list: the operation, the exception that left it
\* and its arguments.
ListCall(op, exc, jsondata, data) ==
    [op |-> op, exc |-> exc, ok |-> FALSE, log |-> <<>>, process_errors |-> <<>>,
     extra |-> <<>>, jsondata |-> jsondata, data |-> data]

\* json = L(jsondata, prefix=prefix, **kwargs); a construction that raises
\* leaves json as it was.
NewList(prefix, jsondata, kwargs) ==
    \E made \in {JsonNew(World(class_dict, unbound_fields, json_meta), "L", jsondata,
                         NoneValue, prefix, NoneValue, kwargs)} :
       /\ unbound_fields' = made.w.unbound_fields
       /\ json_meta' = made.w.json_meta
       /\ instance' = IF made.exc = "" THEN made.json ELSE instance
       /\ history' = IF made.exc = "" THEN <<>> ELSE history
       /\ last' = ListCall("new", made.exc, jsondata, kwargs)
       /\ UNCHANGED <<creation_counter, class_dict, constructed, fault, bound_field>>

\* json.process(jsondata, **kwargs)
ProcessList(jsondata, kwargs) ==
    /\ instance # NoJson
    /\ instance.fields[1][2].last_index < MaxListIndex
    /\ \E processed \in {BaseJsonProcess(World(class_dict, unbound_fields, json_meta),
                                          instance, jsondata, NoneValue, NoneValue, kwargs)} :
       /\ unbound_fields' = processed.w.unbound_fields
       /\ json_meta' = processed.w.json_meta
       /\ instance' = processed.json
       /\ history' = <<>>
       /\ last' = ListCall("process", processed.exc, jsondata, kwargs)
    /\ UNCHANGED <<creation_counter, class_dict, constructed, fault, bound_field>>

\* json.a.append_entry(data)
Append_entry(data) ==
    /\ instance # NoJson
    /\ instance.fields[1][2].last_index < MaxListIndex
    /\ \E added \in {AppendEntry(World(class_dict, unbound_fields, json_meta),
                                   instance.fields[1][2], data)} :
       /\ instance' = [instance EXCEPT !.fields[1][2] = added.field]
       /\ last' = ListCall("append", added.exc, NoneValue, data)
    /\ history' = <<>>
    /\ UNCHANGED <<metaVars, fault, bound_field>>

\* json.a.pop_entry()
Pop_entry ==
    /\ instance # NoJson
    /\ \E popped \in {PopEntry(instance.fields[1][2])} :
       /\ instance' = [instance EXCEPT !.fields[1][2] = popped.field]
       /\ last' = ListCall("pop", popped.exc, NoneValue, unset_value)
    /\ history' = <<>>
    /\ UNCHANGED <<metaVars, fault, bound_field>>

InitList ==
    /\ creation_counter = 2
    /\ \E limits \in EntryLimits, validators \in ListValidators :
           class_dict = ListClassDict(limits, validators[1], validators[2])
    /\ unbound_fields = [cls \in {"L"} |-> None]
    /\ json_meta = [cls \in {"L"} |-> None]
    /\ constructed = NoInstance
    /\ fault = ""
    /\ bound_field = NoField
    /\ instance = NoJson
    /\ last = NoCall
    /\ history = <<>>

NextList ==
    \/ \E prefix \in Prefixes :
           \E arguments \in ListArguments(NormalizePrefix(prefix) \o <<"a">>) :
               NewList(prefix, arguments[1], arguments[2])
    \/ \E arguments \in ListArguments(instance.prefix \o <<"a">>) :
           ProcessList(arguments[1], arguments[2])
    \/ Append_entry(IntValue(7))
    \/ Pop_entry
    \/ Validate

SpecList == InitList /\ [][NextList]_vars

(***************************************************************************)
(* SpecShared:                                                             *)
(*   class L(Json):                                                        *)
(*       a = ListField(IntegerField(validators=[required]), default=[9],   *)
(*                     min_entries=...)                                    *)
(* One L is constructed, processed again, appended to and popped from;     *)
(* now and then another L is constructed without input.  The list [9] is   *)
(* one object, held by the declaration and by the list field of every L.   *)
(***************************************************************************)
\* default=[9] in the declaration of the list
SharedDefault == ListValue(<<IntValue(9)>>)

\* later = L()
NewLater ==
    /\ instance # NoJson
    /\ \E made \in {JsonNew(World(class_dict, unbound_fields, json_meta), "L", NoneValue,
                             NoneValue, <<>>, NoneValue, <<>>)} :
       /\ unbound_fields' = made.w.unbound_fields
       /\ json_meta' = made.w.json_meta
       /\ constructed' = IF made.exc = "" THEN made.json ELSE constructed
       /\ last' = ListCall("later", made.exc, NoneValue, <<>>)
    /\ UNCHANGED <<creation_counter, class_dict, fault, bound_field, instance, history>>

InitShared ==
    /\ creation_counter = 2
    /\ \E min_entries \in {0, 2} :
           class_dict = ListClassDict(<<min_entries, NoneValue, SharedDefault>>, <<>>, <<>>)
    /\ unbound_fields = [cls \in {"L"} |-> None]
    /\ json_meta = [cls \in {"L"} |-> None]
    /\ constructed = NoJson
    /\ fault = ""
    /\ bound_field = NoField
    /\ instance = NoJson
    /\ last = NoCall
    /\ history = <<>>

NextShared ==
    \/ \E arguments \in ListArguments(<<"a">>) : NewList(<<>>, arguments[1], arguments[2])
    \/ \E arguments \in ListArguments(<<"a">>) : ProcessList(arguments[1], arguments[2])
    \/ Append_entry(IntValue(7))
    \/ Pop_entry
    \/ NewLater

SpecShared == InitShared /\ [][NextShared]_vars

(***************************************************************************)
(* SpecObject:                                                             *)
(*   class Inner(Json): x = StringField(validators=[required])             *)
(*   class G(Json):                                                        *)
(*       s = StringField(validators=[required])                            *)
(*       o = ObjectField(Inner, validators=..., filters=...)               *)
(*       def validate_o(json, field): pass            (in some runs)       *)
(* G is constructed from input, processed again and validated, and its     *)
(* errors are read.                                                        *)
(***************************************************************************)
\* The validators and the filters an ObjectField is declared with.
ObjectValidators == {<<>>, <<Required("o required")>>}
ObjectFilters == {<<>>, <<"strip">>}

\* The class body of G: with or without validate_o.
ObjectInline == {<<>>, InlineName(<<"o">>) :> FunctionValue(Pass)}

ObjectClassDict(validators, filters, inline) ==
    [Json |-> (<<"M", "e", "t", "a">> :> MetaClass("DefaultMeta")),
     Inner |->
        (<<"x">> :> MakeUnbound(1, StringField,
                                [DefaultKwargs EXCEPT !.validators = <<Required("x required")>>])),
     G |->
        ((<<"s">> :> MakeUnbound(2, StringField,
                                 [DefaultKwargs EXCEPT
                                     !.validators = <<Required("s required")>>]))
         @@ (<<"o">> :> MakeUnbound(3, ObjectField,
                                    [DefaultKwargs EXCEPT !.json_class = "Inner",
                                                          !.validators = validators,
                                                          !.filters = filters])))
        @@ inline]

\* The inputs of a construction and of process: None, or a map with an entry
\* under some of the names.
ObjectInputs ==
    {NoneValue} \cup
    {DictValue(given_s @@ given_o) :
        given_s \in Optional(<<"s">>, {StrValue(<<"a">>), StrValue(<<>>)}),
        given_o \in Optional(<<"o">>, {DictValue(<<"x">> :> StrValue(<<"a">>)),
                                         DictValue(<<"x">> :> StrValue(<<>>))})}

\* json = G(jsondata); a construction that raises leaves json as it was.
NewObject(jsondata) ==
    \E made \in {JsonNew(World(class_dict, unbound_fields, json_meta), "G", jsondata,
                         NoneValue, <<>>, NoneValue, <<>>)} :
       /\ unbound_fields' = made.w.unbound_fields
       /\ json_meta' = made.w.json_meta
       /\ instance' = IF made.exc = "" THEN made.json ELSE instance
       /\ history' = IF made.exc = "" THEN <<>> ELSE history
       /\ last' = Outcome("new", made.exc, FALSE, <<>>, <<>>, <<>>)
       /\ UNCHANGED <<creation_counter, class_dict, constructed, fault, bound_field>>

InitObject ==
    /\ creation_counter = 3
    /\ \E validators \in ObjectValidators, filters \in ObjectFilters,
          inline \in ObjectInline :
           class_dict = ObjectClassDict(validators, filters, inline)
    /\ unbound_fields = [cls \in {"Inner", "G"} |-> None]
    /\ json_meta = [cls \in {"Inner", "G"} |-> None]
    /\ constructed = NoInstance
    /\ fault = ""
    /\ bound_field = NoField
    /\ instance = NoJson
    /\ last = NoCall
    /\ history = <<>>

NextObject ==
    \/ \E jsondata \in ObjectInputs : NewObject(jsondata)
    \/ \E jsondata \in ObjectInputs : Process(jsondata)
    \/ Validate
    \/ ReadErrors

SpecObject == InitObject /\ [][NextObject]_vars

(***************************************************************************)
(* SpecNative:                                                             *)
(*   class Inner(Json): x = StringField(validators=[required])             *)
(*   class P(Json):                                                        *)
(*       s = StringField(default=lambda: 'd')                              *)
(*       t = StringField(default='e')                                      *)
(*       o = ObjectField(Inner, default=lambda: AttrDict(x='d'))           *)
(* P is constructed with a prefix from input, a native object and explicit *)
(* values, processed again, written onto a native object, and its fields   *)
(* are assigned and deleted, as items and as attributes.                   *)
(***************************************************************************)
NativeClassDict ==
    [Json |-> (<<"M", "e", "t", "a">> :> MetaClass("DefaultMeta")),
     Inner |->
        (<<"x">> :> MakeUnbound(1, StringField,
                                [DefaultKwargs EXCEPT !.validators = <<Required("x required")>>])),
     P |->
        (<<"s">> :> MakeUnbound(2, StringField,
                                [DefaultKwargs EXCEPT
                                    !.default = CallableValue(StrValue(<<"d">>))]))
        @@ (<<"t">> :> MakeUnbound(3, StringField,
                                   [DefaultKwargs EXCEPT !.default = StrValue(<<"e">>)]))
        @@ (<<"o">> :> MakeUnbound(4, ObjectField,
                                   [DefaultKwargs EXCEPT
                                       !.json_class = "Inner",
                                       !.default =
                                           CallableValue(
                                               ObjectValue("D", <<"x">> :> StrValue(<<"d">>)))]))]

\* The prefixes of a construction: none, one that gets the hyphen, one that
\* ends with a separator, one that ends with another character.
NativePrefixes == {<<>>, <<"p">>, <<"p", ".">>, <<"p", "[">>}

\* The arguments <<jsondata, obj, data, kwargs>> of a construction and of
\* process; prefix is the prefix of the container, as it was passed.
NativeArguments(prefix) ==
    LET s == <<"s">>
        t == <<"t">>
        o == <<"o">>
        x == <<"x">>
        a == StrValue(<<"a">>)
        j == StrValue(<<"j">>)
        k == StrValue(<<"k">>)
        m == StrValue(<<"m">>)
        inner == ObjectValue("N", x :> StrValue(<<"n">>))
        key == NormalizePrefix(prefix)
    IN {<<NoneValue, NoneValue, NoneValue, <<>> >>,
        <<NoneValue, ObjectValue("M", (s :> m) @@ (o :> inner)),
          DictValue((s :> a) @@ (t :> a)), s :> k>>,
        <<NoneValue, ObjectValue("M", t :> NoneValue), NoneValue, (s :> k) @@ (t :> k)>>,
        <<NoneValue, NoneValue, DictValue((s :> a) @@ (o :> DictValue(x :> a))), s :> k>>,
        <<DictValue(((key \o s) :> j) @@ ((key \o o) :> DictValue(x :> j))),
          NoneValue, NoneValue, <<>> >>,
        <<DictValue(((prefix \o s) :> j) @@ (t :> j)), NoneValue, NoneValue, <<>> >>}

\* The native objects populate_obj writes onto: without o, with o = None, with
\* an object under o.
PopulateTargets ==
    {ObjectValue("T", <<>>),
     ObjectValue("T", <<"o">> :> NoneValue),
     ObjectValue("T", (<<"o">> :> ObjectValue("E", <<"x">> :> StrValue(<<"o", "l", "d">>)))
                      @@ (<<"s">> :> StrValue(<<"o", "l", "d">>)))}

\* The names of the fields of a container, in the order of its field mapping.
FieldOrder(json) == [i \in DOMAIN json.fields |-> json.fields[i][1]]

\* The outcome of a call on the container P: the arguments it was given and the
\* names of the fields before it; before and after are the native object
\* populate_obj was given and that object when it left.
NativeCall(op, exc, prefix, arguments, names, before, after) ==
    [op |-> op, exc |-> exc, prefix |-> prefix, arguments |-> arguments,
     names |-> names, before |-> before, after |-> after]

\* json = P(jsondata, obj, prefix, data, **kwargs); a construction that raises
\* leaves json as it was.
NewNative(prefix, arguments) ==
    \E made \in {JsonNew(World(class_dict, unbound_fields, json_meta), "P", arguments[1],
                         arguments[2], prefix, arguments[3], arguments[4])} :
       /\ unbound_fields' = made.w.unbound_fields
       /\ json_meta' = made.w.json_meta
       /\ instance' = IF made.exc = "" THEN made.json ELSE instance
       /\ last' = NativeCall("new", made.exc, prefix, arguments, <<>>, NoneValue, NoneValue)
       /\ UNCHANGED <<creation_counter, class_dict, constructed, fault, bound_field, history>>

\* json.process(jsondata, obj, data, **kwargs)
ProcessNative(arguments) ==
    /\ instance # NoJson
    /\ \E processed \in {BaseJsonProcess(World(class_dict, unbound_fields, json_meta),
                                          instance, arguments[1], arguments[2],
                                          arguments[3], arguments[4])} :
       /\ unbound_fields' = processed.w.unbound_fields
       /\ json_meta' = processed.w.json_meta
       /\ instance' = processed.json
       /\ last' = NativeCall("process", processed.exc, instance.prefix, arguments,
                             FieldOrder(instance), NoneValue, NoneValue)
    /\ UNCHANGED <<creation_counter, class_dict, constructed, fault, bound_field, history>>

\* json.populate_obj(obj)
Populate_obj(obj) ==
    /\ instance # NoJson
    /\ \E written \in {JsonPopulate(instance, obj, 1)} :
       /\ instance' = written.json
       /\ last' = NativeCall("populate_obj", written.exc, instance.prefix, <<>>,
                             FieldOrder(instance), obj, written.obj)
    /\ UNCHANGED <<metaVars, fault, bound_field, history>>

\* A bug: the field stays in the mapping.
JsonDelItemKeeps(json, name) ==
    IF name \notin {json.fields[i][1] : i \in DOMAIN json.fields}
    THEN [exc |-> "KeyError", json |-> json]
    ELSE [exc |-> "", json |-> [json EXCEPT !.masked = @ \cup {name}]]

\* Json.__delitem__: del self._fields[name], then setattr(self, name, None).
JsonDelItem(json, name) ==
    IF name \notin {json.fields[i][1] : i \in DOMAIN json.fields}
    THEN [exc |-> "KeyError", json |-> json]
    ELSE [exc |-> "",
          json |-> [json EXCEPT !.fields = SelectSeq(json.fields, LAMBDA p : p[1] # name),
                                !.masked = @ \cup {name}]]

\* A bug: a name that is no field of the instance goes to object.__delattr__
\* whatever the class holds under it.
JsonDelAttrStrict(dicts, json, name) ==
    IF name \in {json.fields[i][1] : i \in DOMAIN json.fields}
    THEN JsonDelItem(json, name)
    ELSE IF name \in json.masked
    THEN [exc |-> "", json |-> [json EXCEPT !.masked = @ \ {name}]]
    ELSE [exc |-> "AttributeError", json |-> json]

\* Json.__delattr__: a field of the instance is deleted as an item; a name
\* under which the class holds a field is set to None on the instance; another
\* name goes to object.__delattr__, which deletes the attribute of the instance
\* or raises AttributeError.
JsonDelAttr(dicts, json, name) ==
    IF name \in {json.fields[i][1] : i \in DOMAIN json.fields}
    THEN JsonDelItem(json, name)
    ELSE IF /\ Lookup(dicts, Mro[json.cls], name) # None
            /\ HasJsonField(Lookup(dicts, Mro[json.cls], name).v)
    THEN [exc |-> "", json |-> [json EXCEPT !.masked = @ \cup {name}]]
    ELSE IF name \in json.masked
    THEN [exc |-> "", json |-> [json EXCEPT !.masked = @ \ {name}]]
    ELSE [exc |-> "AttributeError", json |-> json]

\* getattr(json, name): the instance holds its fields as attributes, and None
\* under the names that were set to None; other names are looked up on the
\* class.  None stands for AttributeError.
JsonGetAttr(dicts, json, name) ==
    IF name \in {json.fields[i][1] : i \in DOMAIN json.fields}
    THEN Some((CHOOSE p \in {json.fields[i] : i \in DOMAIN json.fields} : p[1] = name)[2])
    ELSE IF name \in json.masked THEN Some(NoneValue)
    ELSE Lookup(dicts, Mro[json.cls], name)

\* Json.__setitem__: raises.
JsonSetItem(json, name, value) == [exc |-> "TypeError", json |-> json]

\* json[name] = StringField()
SetItem(name) ==
    /\ instance # NoJson
    /\ \E set \in {JsonSetItem(instance, name, UnboundField(creation_counter))} :
       /\ instance' = set.json
       /\ last' = NativeCall("setitem", set.exc, instance.prefix, <<name>>,
                             FieldOrder(instance), NoneValue, NoneValue)
    /\ UNCHANGED <<metaVars, fault, bound_field, history>>

\* del json[name]
DelItem(name) ==
    /\ instance # NoJson
    /\ \E deleted \in {JsonDelItem(instance, name)} :
       /\ instance' = deleted.json
       /\ last' = NativeCall("delitem", deleted.exc, instance.prefix, <<name>>,
                             FieldOrder(instance), NoneValue, NoneValue)
    /\ UNCHANGED <<metaVars, fault, bound_field, history>>

\* del json.name
DelAttrItem(name) ==
    /\ instance # NoJson
    /\ \E deleted \in {JsonDelAttr(class_dict, instance, name)} :
       /\ instance' = deleted.json
       /\ last' = NativeCall("delattr", deleted.exc, instance.prefix, <<name>>,
                             FieldOrder(instance), NoneValue, NoneValue)
    /\ UNCHANGED <<metaVars, fault, bound_field, history>>

InitNative ==
    /\ creation_counter = 4
    /\ class_dict = NativeClassDict
    /\ unbound_fields = [cls \in {"Inner", "P"} |-> None]
    /\ json_meta = [cls \in {"Inner", "P"} |-> None]
    /\ constructed = NoInstance
    /\ fault = ""
    /\ bound_field = NoField
    /\ instance = NoJson
    /\ last = NoCall
    /\ history = <<>>

NextNative ==
    \/ \E prefix \in NativePrefixes :
           \E arguments \in NativeArguments(prefix) : NewNative(prefix, arguments)
    \/ \E arguments \in NativeArguments(instance.prefix) : ProcessNative(arguments)
    \/ \E obj \in PopulateTargets : Populate_obj(obj)
    \/ \E name \in {<<"s">>, <<"o">>} : SetItem(name)
    \/ \E name \in {<<"t">>, <<"o">>} : DelItem(name)
    \/ \E name \in {<<"t">>, <<"u">>} : DelAttrItem(name)

SpecNative == InitNative /\ [][NextNative]_vars

(***************************************************************************)
(* SpecFilters:                                                            *)
(*   class Q(Json):                                                        *)
(*       a = StringField(default=' h', filters=[lambda x: x.strip()])      *)
(*       b = StringField(default='42',                                     *)
(*                       filters=[lambda x: x.strip(), int, lambda x: -x]) *)
(*       c = StringField()                                                 *)
(*       n = IntegerField(default=7)                                       *)
(* Q is constructed from input and keyword values, processed again and     *)
(* validated.                                                              *)
(***************************************************************************)
FiltersClassDict ==
    [Json |-> (<<"M", "e", "t", "a">> :> MetaClass("DefaultMeta")),
     Q |->
        (<<"a">> :> MakeUnbound(1, StringField,
                                [DefaultKwargs EXCEPT
                                    !.default = StrValue(<<" ", "h">>),
                                    !.filters = <<"strip">>]))
        @@ (<<"b">> :> MakeUnbound(2, StringField,
                                   [DefaultKwargs EXCEPT
                                       !.default = StrValue(<<"4", "2">>),
                                       !.filters = <<"strip", "int", "neg">>]))
        @@ (<<"c">> :> MakeUnbound(3, StringField, DefaultKwargs))
        @@ (<<"n">> :> MakeUnbound(4, IntegerField,
                                   [DefaultKwargs EXCEPT !.default = IntValue(7)]))]

\* The arguments <<jsondata, kwargs>> of a construction and of process.
FiltersArguments ==
    LET a == <<"a">>
        b == <<"b">>
        c == <<"c">>
        n == <<"n">>
        v == StrValue(<<"v">>)
    IN {<<NoneValue, <<>> >>,
        <<NoneValue, b :> StrValue(<<" ", "x">>)>>,
        <<NoneValue, b :> NoneValue>>,
        <<NoneValue, b :> IntValue(5)>>,
        <<DictValue(<<>>), <<>> >>,
        <<DictValue((a :> StrValue(<<" ", "f", " ">>)) @@ (b :> StrValue(<<"h", "i">>))), <<>> >>,
        <<DictValue(b :> StrValue(<<" ", "4", " ">>)), (c :> v) @@ (n :> IntValue(3))>>,
        <<DictValue(<<>>), (c :> StrValue(<<>>)) @@ (a :> StrValue(<<>>))>>,
        <<DictValue(<<>>), (c :> v) @@ (n :> IntValue(0))>>}

\* json = Q(jsondata, **kwargs); a construction that raises leaves json as it
\* was.
NewFilters(jsondata, kwargs) ==
    \E made \in {JsonNew(World(class_dict, unbound_fields, json_meta), "Q", jsondata,
                         NoneValue, <<>>, NoneValue, kwargs)} :
       /\ unbound_fields' = made.w.unbound_fields
       /\ json_meta' = made.w.json_meta
       /\ instance' = IF made.exc = "" THEN made.json ELSE instance
       /\ history' = IF made.exc = "" THEN <<>> ELSE history
       /\ last' = ListCall("new", made.exc, jsondata, kwargs)
       /\ UNCHANGED <<creation_counter, class_dict, constructed, fault, bound_field>>

\* json.process(jsondata, **kwargs); a process that raises leaves the fields
\* behind the one that raised as they were.
ProcessFilters(jsondata, kwargs) ==
    /\ instance # NoJson
    /\ \E processed \in {BaseJsonProcess(World(class_dict, unbound_fields, json_meta),
                                          instance, jsondata, NoneValue, NoneValue, kwargs)} :
       /\ unbound_fields' = processed.w.unbound_fields
       /\ json_meta' = processed.w.json_meta
       /\ instance' = processed.json
       /\ history' = <<>>
       /\ last' = ListCall("process", processed.exc, jsondata, kwargs)
    /\ UNCHANGED <<creation_counter, class_dict, constructed, fault, bound_field>>

InitFilters ==
    /\ creation_counter = 4
    /\ class_dict = FiltersClassDict
    /\ unbound_fields = [cls \in {"Q"} |-> None]
    /\ json_meta = [cls \in {"Q"} |-> None]
    /\ constructed = NoInstance
    /\ fault = ""
    /\ bound_field = NoField
    /\ instance = NoJson
    /\ last = NoCall
    /\ history = <<>>

NextFilters ==
    \/ \E arguments \in FiltersArguments : NewFilters(arguments[1], arguments[2])
    \/ \E arguments \in FiltersArguments : ProcessFilters(arguments[1], arguments[2])
    \/ Validate

SpecFilters == InitFilters /\ [][NextFilters]_vars

(***************************************************************************)
(* SpecHook (after tests/jsons.py, JsonTest.F):                            *)
(*   class Q(Json):                                                        *)
(*       s = StringField(validators=[required])                            *)
(*       t = StringField(validators=[required])                            *)
(*       def validate_s(json, field): ...        (in some of the classes)  *)
(*       def validate_u(json, field): raise ValidationError(...)           *)
(* Q is constructed and processed with values for s and t, and validated.  *)
(***************************************************************************)
\* The validate_s of the class body: none, one that returns, one that raises
\* ValidationError.
HookInlines ==
    {<<>>,
     InlineName(<<"s">>) :> FunctionValue(Pass),
     InlineName(<<"s">>) :>
         FunctionValue(Behaviour("ValueError", <<Message("s rejected")>>, "always"))}

HookClassDict(inline) ==
    [Json |-> (<<"M", "e", "t", "a">> :> MetaClass("DefaultMeta")),
     Q |->
        (<<"s">> :> MakeUnbound(1, StringField,
                                [DefaultKwargs EXCEPT
                                    !.validators = <<Required("s required")>>]))
        @@ (<<"t">> :> MakeUnbound(2, StringField,
                                   [DefaultKwargs EXCEPT
                                       !.validators = <<Required("t required")>>]))
        @@ (InlineName(<<"u">>) :>
                FunctionValue(Behaviour("ValueError", <<Message("u rejected")>>, "always")))
        @@ inline]

\* The arguments <<jsondata, kwargs>> of a construction and of process.
HookArguments ==
    {<<NoneValue, kwargs>> :
        kwargs \in {<<>>,
                    <<"s">> :> StrValue(<<"x">>),
                    <<"t">> :> StrValue(<<"y">>),
                    (<<"s">> :> StrValue(<<"x">>)) @@ (<<"t">> :> StrValue(<<"y">>))}}
    \cup {<<DictValue(<<"s">> :> StrValue(<<"z">>)), <<"t">> :> StrValue(<<"y">>)>>}

InitHook ==
    /\ creation_counter = 2
    /\ \E inline \in HookInlines : class_dict = HookClassDict(inline)
    /\ unbound_fields = [cls \in {"Q"} |-> None]
    /\ json_meta = [cls \in {"Q"} |-> None]
    /\ constructed = NoInstance
    /\ fault = ""
    /\ bound_field = NoField
    /\ instance = NoJson
    /\ last = NoCall
    /\ history = <<>>

NextHook ==
    \/ \E arguments \in HookArguments : NewFilters(arguments[1], arguments[2])
    \/ \E arguments \in HookArguments : ProcessFilters(arguments[1], arguments[2])
    \/ Validate

SpecHook == InitHook /\ [][NextHook]_vars

(***************************************************************************)
(* Properties of the field table (SpecMeta).                               *)
(***************************************************************************)
\* The public names that getattr(cls, name) resolves to a field, with the field.
DeclaredFields(cls) ==
    {<<name, Lookup(class_dict, Mro[cls], name).v>> :
        name \in {n \in DirNames(class_dict, cls) :
                     /\ ~StartsWithUnderscore(n)
                     /\ HasJsonField(Lookup(class_dict, Mro[cls], n).v)}}

TableEntries(t) == {t[i] : i \in DOMAIN t}

\* C1: the field table a construction builds lists every declared name exactly
\* once, in ascending (creation_counter, name) order: the entries of a table are
\* strictly ascending (so two names bound to the same field are ordered by name),
\* no name occurs twice, a freshly built table holds exactly the declared names,
\* and the field created last is behind every field created before it.
C1_FieldTableOrdered ==
    constructed # NoInstance =>
        LET t == constructed.fields
        IN /\ \A i, j \in DOMAIN t :
                  i < j =>
                      /\ t[i][1] # t[j][1]
                      /\ t[i][2].creation_counter <= t[j][2].creation_counter
                      /\ t[i][2].creation_counter = t[j][2].creation_counter
                             => StrLess(t[i][1], t[j][1])
           /\ constructed.rebuilt =>
                  /\ TableEntries(t) = DeclaredFields(constructed.cls)
                  /\ Len(t) = Cardinality(DeclaredFields(constructed.cls))
                  /\ \A i, j \in DOMAIN t :
                         /\ t[i][2].creation_counter = creation_counter
                         /\ i < j
                         => t[j][2].creation_counter = creation_counter

\* C1 witness: a table built after a redeclaration, where the redeclared name
\* "a" (the newest field) stands behind "b" although "a" < "b".
C1_Witness ==
    /\ constructed.rebuilt
    /\ Len(constructed.fields) = 2
    /\ constructed.fields[1][1] = <<"b">>
    /\ constructed.fields[2][1] = <<"a">>
    /\ constructed.fields[2][2].creation_counter = creation_counter
    /\ creation_counter > 2

\* C2 (as claimed): after any assignments and deletions on a type, the field table
\* its next construction uses holds exactly the public names whose current value
\* on the type is a field, each with its current field.  Stated for class A, which
\* has no modelled ancestor that could be mutated.
C2_TableCurrentAfterMutation ==
    constructed.cls = "A" => TableEntries(constructed.fields) = DeclaredFields("A")

\* C3 (as claimed): after a field is assigned to or deleted from an ancestor, the
\* next construction of the subtype reflects it: every field the subtype inherits
\* is in the table with its current UnboundField, and no inherited name that was
\* deleted from the ancestor is still listed.
C3_SubtypeSeesAncestorMutation ==
    constructed.cls = "B" =>
        /\ \A p \in DeclaredFields("B") :
               p[1] \notin DOMAIN class_dict["B"] => p \in TableEntries(constructed.fields)
        /\ \A p \in TableEntries(constructed.fields) :
               p[1] \notin DOMAIN class_dict["B"] => p[1] \in DirNames(class_dict, "B")

\* The fields a class declares itself: the names of its own __dict__ that hold
\* a field, with the field.
OwnFields(cls) ==
    {<<name, class_dict[cls][name]>> :
        name \in {n \in DOMAIN class_dict[cls] : HasJsonField(class_dict[cls][n])}}

\* The field an ancestor shows under a name that the classes before it in the
\* MRO of cls do not declare.
InheritedFields(cls) ==
    UNION {{p \in OwnFields(Mro[cls][i]) :
               \A j \in 1..(i - 1) : p[1] \notin DOMAIN class_dict[Mro[cls][j]]} :
           i \in 2..Len(Mro[cls])}

\* C26: the field table a construction of the subtype B(A) or D(A, M) uses holds
\* the subtype's own declarations and every field of an ancestor whose name no
\* class before that ancestor declares, and nothing else: a name the subtype
\* declares stands once, with the subtype's field, at the place its creation
\* counter gives it, and an inherited entry is the ancestor's very field.  The
\* table of an ancestor holds the ancestor's own fields whatever its subtypes
\* declare.
C26_InheritedTable ==
    /\ constructed.cls \in Subtypes =>
           LET t == constructed.fields
           IN /\ TableEntries(t) = OwnFields(constructed.cls) \cup InheritedFields(constructed.cls)
              /\ \A i, j \in DOMAIN t :
                     i < j => /\ t[i][1] # t[j][1]
                              /\ t[i][2].creation_counter < t[j][2].creation_counter
    /\ constructed.cls \in {"A", "M"} =>
           TableEntries(constructed.fields) = OwnFields(constructed.cls)
    /\ OwnFields("A") = {<<<<"a">>, UnboundField(1)>>}
    /\ OwnFields("M") = {<<<<"b">>, UnboundField(2)>>}

\* C26 witness: D(A, M) declared a itself after its table was built once: the
\* table of the next construction holds b of M, then the a of D in place of the
\* a of A.
C26_Witness ==
    /\ constructed.cls = "D"
    /\ constructed.rebuilt
    /\ Len(constructed.fields) = 2
    /\ constructed.fields[1] = <<<<"b">>, UnboundField(2)>>
    /\ constructed.fields[2][1] = <<"a">>
    /\ constructed.fields[2][2] = class_dict["D"][<<"a">>]
    /\ constructed.fields[2][2].creation_counter > 2
    /\ unbound_fields["A"] # None

\* The fields the attributes of A hold in a __dict__.
HeldFields(dict) == {dict[name] : name \in DOMAIN dict}

\* C27: in every step the class counter does not go down; a field A did not
\* hold before the step has a creation counter above zero, above the class
\* counter before the step and so above the counter of every field created
\* before it; two fields with one creation counter are one field; and an
\* attribute that the step does not assign a new field to keeps its field, with
\* its creation counter, through later creations and through bind.
C27_SequenceNumbers ==
    [][LET old == HeldFields(class_dict["A"])
           new == HeldFields(class_dict'["A"])
       IN /\ creation_counter' >= creation_counter
          /\ \A o \in old : o.creation_counter <= creation_counter
          /\ \A f \in new \ old :
                 /\ f.creation_counter > 0
                 /\ f.creation_counter > creation_counter
                 /\ \A o \in old : f.creation_counter > o.creation_counter
          /\ \A f, g \in new : f.creation_counter = g.creation_counter => f = g
          /\ \A name \in DOMAIN class_dict["A"] \cap DOMAIN class_dict'["A"] :
                 \/ class_dict'["A"][name] = class_dict["A"][name]
                 \/ class_dict'["A"][name] \in new \ old]_vars

\* C27 witness: a was created first, b = IntegerField(default='d') third, after
\* a field that is held no more, and b was bound last: a and b keep 1 and 3.
C27_Witness ==
    /\ creation_counter = 3
    /\ DOMAIN class_dict["A"] = FieldNames
    /\ class_dict["A"][<<"a">>] = UnboundField(1)
    /\ class_dict["A"][<<"b">>].creation_counter = 3
    /\ class_dict["A"][<<"b">>].field_class = IntegerField
    /\ bound_field.type = "IntegerField"
    /\ last.op = "bind"

\* The names a step assigns a new value: those of the __dict__ of A after the
\* step that were not there before it or held another value.
Assigned(before, after) ==
    {name \in DOMAIN after : name \notin DOMAIN before \/ after[name] # before[name]}

\* C33: A._unbound_fields is None until a construction of A builds it; a
\* construction that finds a table uses it as it is and builds none; and a step
\* that assigns a value that is no field, or assigns any value, a field too, to
\* a name with a leading underscore, leaves A._unbound_fields as it was, built
\* or not and with the same entries.  No table has an entry under a name with
\* a leading underscore.
C33_TableCacheIsLazy ==
    /\ unbound_fields["A"] = None
    /\ [][/\ (unbound_fields["A"] = None /\ unbound_fields'["A"] # None)
             => /\ constructed' # NoInstance
                /\ constructed'.rebuilt
                /\ class_dict' = class_dict
          /\ (unbound_fields["A"] # None /\ constructed' # NoInstance)
             => /\ unbound_fields' = unbound_fields
                /\ constructed'.fields = unbound_fields["A"].v
                /\ ~constructed'.rebuilt
          /\ \A name \in Assigned(class_dict["A"], class_dict'["A"]) :
                 (StartsWithUnderscore(name) \/ ~HasJsonField(class_dict'["A"][name]))
                 => unbound_fields' = unbound_fields
          /\ unbound_fields'["A"] # None
             => \A i \in DOMAIN unbound_fields'["A"].v :
                    ~StartsWithUnderscore(unbound_fields'["A"].v[i][1])]_vars

\* C33 witness: after a construction built the table [a], A._m was assigned the
\* field created last: the table is there and holds a alone.
C33_Witness ==
    /\ creation_counter = 2
    /\ DOMAIN class_dict["A"] = {<<"a">>, <<"_", "m">>}
    /\ class_dict["A"][<<"_", "m">>] = UnboundField(2)
    /\ constructed = NoInstance
    /\ fault = ""
    /\ unbound_fields["A"] = Some(<<<<<<"a">>, UnboundField(1)>>>>)

\* C33, the value that is no field: after a construction built the table [a],
\* A.b was assigned 5: the table is there and holds a alone.
PlainWriteKeepsTable ==
    /\ creation_counter = 1
    /\ DOMAIN class_dict["A"] = FieldNames
    /\ class_dict["A"][<<"b">>] = PlainValue
    /\ constructed = NoInstance
    /\ fault = ""
    /\ unbound_fields["A"] = Some(<<<<<<"a">>, UnboundField(1)>>>>)

(***************************************************************************)
(* Properties of the inline validators (SpecHook).                         *)
(***************************************************************************)
\* The validators the last validate called for the field name, in the order of
\* the calls.
CalledFor(name) ==
    LET calls == SelectSeq(last.log, LAMBDA e : e.hook = "validator" /\ e.field = name)
    IN [i \in DOMAIN calls |-> calls[i].callee]

\* The validate_<name> the class body of Q defines, as the validators it adds.
HookOf(name) ==
    IF InlineName(name) \in DOMAIN class_dict["Q"]
    THEN <<class_dict["Q"][InlineName(name)].behaviour>>
    ELSE <<>>

\* C34: Json.validate calls for every field its declared validators and behind
\* them, once, the validate_<name> the class defines for the name of the field,
\* and no validator else: a field without a validate_<name> gets the declared
\* validators only, and the validate_<name> of one field is not called for
\* another.  When a validate_<name> of a field raises ValidationError, validate
\* returns False and the field holds the message.
C34_InlineValidatorIsExtra ==
    (last.op = "validate" /\ last.exc = "") =>
        /\ \A i \in DOMAIN instance.fields :
               LET name == instance.fields[i][1]
                   field == instance.fields[i][2]
                   hook == HookOf(name)
               IN /\ CalledFor(name) = field.validators \o hook
                  /\ (hook # <<>> /\ Fires(hook[1], field.data, FALSE))
                     => /\ ~last.ok
                        /\ \E k \in DOMAIN field.errors : field.errors[k] = hook[1].args[1]
        /\ \A e \in {last.log[k] : k \in DOMAIN last.log} :
               e.hook = "validator" => e.callee # HookOf(<<"u">>)[1]

\* C34 witness: validate_s raises ValidationError; s = 'x' and t = 'y' pass
\* their declared validators, validate_s was called behind the one of s and
\* validate returned False.
C34_Witness ==
    /\ last.op = "validate"
    /\ last.exc = ""
    /\ ~last.ok
    /\ HookOf(<<"s">>) # <<>>
    /\ Len(CalledFor(<<"s">>)) = 2
    /\ CalledFor(<<"s">>)[2] = HookOf(<<"s">>)[1]
    /\ Len(CalledFor(<<"t">>)) = 1
    /\ instance.fields[1][2].data = StrValue(<<"x">>)
    /\ instance.fields[2][2].data = StrValue(<<"y">>)
    /\ instance.fields[1][2].errors = <<Message("s rejected")>>
    /\ instance.fields[2][2].errors = <<>>

\* C34, the class without validate_s: s is validated by its declared validator
\* alone.
NoHookNoExtra ==
    /\ last.op = "validate"
    /\ last.ok
    /\ HookOf(<<"s">>) = <<>>
    /\ Len(CalledFor(<<"s">>)) = 1

(***************************************************************************)
(* Properties of the synthesized Meta (SpecConfig).                        *)
(***************************************************************************)
\* The classes of the MRO of cls that declare a Meta in their own __dict__, in
\* the order of the MRO.
Declaring(cls) ==
    SelectSeq(Mro[cls], LAMBDA c : <<"M", "e", "t", "a">> \in DOMAIN class_dict[c])

\* C31: the Meta a construction synthesizes has as bases the Meta of every class
\* of the MRO that declares one in its own __dict__ and of no other, in the
\* order of the MRO with DefaultMeta (the Meta of Json) last, each once; the
\* instance's meta is of that class, and an attribute of it has the value the
\* first of these Meta that defines it gives it.
C31_MetaFollowsMro ==
    [][\A cls \in DOMAIN MetaFragments :
          (json_meta[cls] = None /\ json_meta'[cls] # None)
          => LET bases == json_meta'[cls].v
                 from == Declaring(cls)
             IN /\ Len(bases) = Len(from)
                /\ \A i \in DOMAIN bases :
                       bases[i] = class_dict[from[i]][<<"M", "e", "t", "a">>].py
                /\ from[Len(from)] = "Json"
                /\ bases[Len(bases)] = "DefaultMeta"
                /\ \A i, j \in DOMAIN bases : i # j => bases[i] # bases[j]
                /\ instance'.cls = cls
                /\ instance'.meta = bases
                /\ \A key \in {"foo", "bar", "quux", "locales", "none"} :
                       LET defining == {i \in DOMAIN from :
                                           key \in DOMAIN MetaAttrs[bases[i]]}
                       IN IF defining = {}
                          THEN MetaGet(instance'.meta, key) = None
                          ELSE \E i \in defining :
                                  /\ \A j \in defining : i <= j
                                  /\ MetaGet(instance'.meta, key)
                                        = Some(MetaAttrs[bases[i]][key])]_vars

\* C31 witness: D(A, M) with its own Meta: the bases are the Meta of D, of A
\* and of M and DefaultMeta; foo comes from A ahead of M, bar from M, quux from D.
C31_Witness ==
    /\ instance.cls = "D"
    /\ instance.meta = <<"MetaD", "MetaA", "MetaM", "DefaultMeta">>
    /\ json_meta["D"] = Some(instance.meta)
    /\ MetaGet(instance.meta, "foo") = Some(9)
    /\ MetaGet(instance.meta, "bar") = Some(8)
    /\ MetaGet(instance.meta, "quux") = Some(42)

\* The Meta a class declares in the __dict__ of dicts, None without one.
OwnMeta(dicts, cls) ==
    IF <<"M", "e", "t", "a">> \in DOMAIN dicts[cls]
    THEN Some(dicts[cls][<<"M", "e", "t", "a">>].py)
    ELSE None

\* C32: cls._json_meta is None before the first construction and is built by a
\* construction of cls only; a step that assigns cls a Meta other than the one
\* it had leaves cls._json_meta None; and the meta of the instance a
\* construction of cls returns has the Meta cls declares now as its first base
\* and none of the other Meta cls was assigned before.
C32_MetaCacheInvalidated ==
    /\ \A cls \in DOMAIN MetaFragments : json_meta[cls] = None
    /\ [][\A cls \in DOMAIN MetaFragments :
             /\ (/\ OwnMeta(class_dict', cls) # None
                 /\ OwnMeta(class_dict', cls) # OwnMeta(class_dict, cls))
                => json_meta'[cls] = None
             /\ (json_meta[cls] = None /\ json_meta'[cls] # None)
                => /\ instance'.cls = cls
                   /\ instance'.meta = json_meta'[cls].v
                   /\ class_dict' = class_dict
             /\ (/\ instance' # instance
                 /\ instance'.cls = cls
                 /\ OwnMeta(class_dict, cls) # None)
                => /\ instance'.meta[1] = OwnMeta(class_dict, cls).v
                   /\ \A i \in DOMAIN instance'.meta :
                          instance'.meta[i] \in MetaFragments[cls]
                          => instance'.meta[i] = OwnMeta(class_dict, cls).v]_vars

\* C32 witness: D, declared with Meta = MetaD, was assigned MetaD2 and
\* constructed: the meta of the instance has MetaD2 first and MetaD nowhere, and
\* the class keeps the synthesized Meta.
C32_Witness ==
    /\ instance.cls = "D"
    /\ OwnMeta(class_dict, "D") = Some("MetaD2")
    /\ instance.meta = <<"MetaD2", "MetaA", "MetaM", "DefaultMeta">>
    /\ json_meta["D"] = Some(instance.meta)

\* C31, the class without a Meta of its own: B(A) after del A.Meta contributes
\* nothing and neither does A: the bases are DefaultMeta alone.
MissingMetaSkipped ==
    /\ instance.cls = "B"
    /\ <<"M", "e", "t", "a">> \notin DOMAIN class_dict["B"]
    /\ <<"M", "e", "t", "a">> \notin DOMAIN class_dict["A"]
    /\ instance.meta = <<"DefaultMeta">>

(***************************************************************************)
(* Properties of Field.validate (SpecField).                               *)
(***************************************************************************)
\* The signals of a validator or a hook.
HardStops(callee) == callee.raises = "StopValidation"

SoftFails(callee) == callee.raises = "ValueError"

HasMessage(callee) == callee.args # <<>> /\ Truthy(callee.args[1])

\* How often a message stands in a sequence of errors.
Count(errors, message) == Cardinality({i \in DOMAIN errors : errors[i] = message})

\* The validators a validate call was given: the declared, then the extra ones.
GivenValidators == bound_field.validators \o last.extra

\* The validators that are due when pre_validate does not stop: up to the
\* first one that hard-stops.
Due ==
    LET stops == {i \in DOMAIN GivenValidators : HardStops(GivenValidators[i])}
    IN IF stops = {} THEN Len(GivenValidators)
       ELSE CHOOSE i \in stops : \A j \in stops : i <= j

\* Whether post_validate raises when it is passed the flag stopped.
PostRaises(stopped) ==
    /\ SoftFails(bound_field.post_validate)
    /\ bound_field.post_validate.when = "stopped" => stopped

\* The messages the calls of a record raised, in the order of the calls.
RECURSIVE MessagesRaised(_)
MessagesRaised(log) ==
    IF log = <<>> THEN <<>>
    ELSE LET e == Head(log)
             raised == /\ e.callee.raises # ""
                       /\ e.callee.when = "stopped" => e.stopped
         IN (IF raised /\ HasMessage(e.callee) THEN <<e.callee.args[1]>> ELSE <<>>)
                \o MessagesRaised(Tail(log))

\* C5: Field.validate calls pre_validate first, then the declared validators
\* followed by the extra validators in their order, then post_validate exactly
\* once as the last call, also after a hard stop; post_validate is passed true
\* iff pre_validate or an invoked validator hard-stopped; a message post_validate
\* raises is the last of errors.
C5_ValidateStepOrder ==
    last.op = "validate" =>
        LET log == last.log
            n == Len(log)
        IN /\ last.exc = ""
           /\ n >= 2
           /\ n - 2 <= Len(GivenValidators)
           /\ log[1].hook = "pre_validate"
           /\ \A i \in 2..(n - 1) :
                  /\ log[i].hook = "validator"
                  /\ log[i].callee = GivenValidators[i - 1]
           /\ log[n].hook = "post_validate"
           /\ log[n].stopped <=> \E i \in 1..(n - 1) : HardStops(log[i].callee)
           /\ PostRaises(log[n].stopped) =>
                  /\ bound_field.errors # <<>>
                  /\ bound_field.errors[Len(bound_field.errors)] =
                         bound_field.post_validate.args[1]
                  /\ Count(bound_field.errors, bound_field.post_validate.args[1]) = 1

\* C5 witness: a declared and an extra validator were both invoked, the last one
\* hard-stopped, and post_validate raised because of the stop.
C5_Witness ==
    /\ last.op = "validate"
    /\ bound_field.validators # <<>>
    /\ last.extra # <<>>
    /\ Len(last.log) = Len(GivenValidators) + 2
    /\ last.log[Len(last.log)].stopped
    /\ bound_field.post_validate.when = "stopped"
    /\ Len(bound_field.errors) >= 2
    /\ bound_field.errors[Len(bound_field.errors)] = bound_field.post_validate.args[1]

\* C6: when the chain runs (pre_validate did not stop), the validators are
\* invoked in sequence order up to the first that hard-stops; each invoked
\* validator that soft-fails leaves exactly one message; the one that hard-stops
\* leaves its message if it has one and nothing otherwise; a validator behind the
\* hard stop is not invoked and leaves no message; the chain returns true (the
\* flag post_validate receives) iff a validator hard-stopped.
C6_ChainRunsToFirstStop ==
    (last.op = "validate" /\ ~HardStops(bound_field.pre_validate)) =>
        LET log == last.log
            chain == GivenValidators
            errors == bound_field.errors
        IN /\ Len(log) = Due + 2
           /\ \A i \in 1..Due : log[i + 1].callee = chain[i]
           /\ \A i \in 1..Due :
                  /\ SoftFails(chain[i]) => Count(errors, chain[i].args[1]) = 1
                  /\ (HardStops(chain[i]) /\ HasMessage(chain[i]))
                         => Count(errors, chain[i].args[1]) = 1
           /\ \A i \in (Due + 1)..Len(chain) :
                  HasMessage(chain[i]) => Count(errors, chain[i].args[1]) = 0
           /\ Len(errors) =
                  Len(last.process_errors)
                      + (IF SoftFails(bound_field.pre_validate) THEN 1 ELSE 0)
                      + Cardinality({i \in 1..Due : HasMessage(chain[i])})
                      + (IF PostRaises(log[Len(log)].stopped) THEN 1 ELSE 0)
           /\ log[Len(log)].stopped <=> (Due >= 1 /\ HardStops(chain[Due]))

\* C6 witness: a validator soft-failed, the next one hard-stopped with a message,
\* and a third one was skipped.
C6_Witness ==
    /\ last.op = "validate"
    /\ ~HardStops(bound_field.pre_validate)
    /\ Len(GivenValidators) = 3
    /\ SoftFails(GivenValidators[1])
    /\ HardStops(GivenValidators[2])
    /\ HasMessage(GivenValidators[2])
    /\ SoftFails(GivenValidators[3])
    /\ Len(last.log) = 4
    /\ Count(bound_field.errors, GivenValidators[2].args[1]) = 1

\* C7: a hard stop of pre_validate leaves no validator invoked; its message, if
\* any, is the next error behind the process errors, and without message it adds
\* none (the field then validates as true when it has no process errors and
\* post_validate raises nothing).  A soft failure of pre_validate adds its message
\* and the validators run as they do after a passing pre_validate.
C7_PreValidateSignals ==
    last.op = "validate" =>
        LET pre == bound_field.pre_validate
            errors == bound_field.errors
            base == Len(last.process_errors)
        IN /\ HardStops(pre) =>
                  /\ Len(last.log) = 2
                  /\ \A i \in DOMAIN GivenValidators :
                         HasMessage(GivenValidators[i])
                             => Count(errors, GivenValidators[i].args[1]) = 0
                  /\ HasMessage(pre) =>
                         /\ Len(errors) > base
                         /\ errors[base + 1] = pre.args[1]
                  /\ ~HasMessage(pre) =>
                         /\ ~PostRaises(TRUE) => errors = last.process_errors
                         /\ (~PostRaises(TRUE) /\ base = 0) => last.ok
           /\ SoftFails(pre) =>
                  /\ Len(errors) > base
                  /\ errors[base + 1] = pre.args[1]
                  /\ Len(last.log) = Due + 2
                  /\ \A i \in 1..Due : last.log[i + 1].callee = GivenValidators[i]

\* C7 witness: pre_validate hard-stopped without message on a field without
\* process errors whose first declared validator always fails, and validate
\* returned true.
C7_Witness ==
    /\ last.op = "validate"
    /\ HardStops(bound_field.pre_validate)
    /\ ~HasMessage(bound_field.pre_validate)
    /\ bound_field.validators # <<>>
    /\ SoftFails(bound_field.validators[1])
    /\ last.process_errors = <<>>
    /\ last.ok

\* C8: after validate, errors is the process errors followed by the messages
\* raised during this call, in the order they were raised; process_errors is
\* what it was; validate returned true iff errors is empty.
C8_ErrorsAfterValidate ==
    last.op = "validate" =>
        /\ bound_field.errors = last.process_errors \o MessagesRaised(last.log)
        /\ bound_field.process_errors = last.process_errors
        /\ last.ok <=> bound_field.errors = <<>>

\* C8 witness: a validate on a field with a process error, whose call raised
\* two further messages.
C8_Witness ==
    /\ last.op = "validate"
    /\ last.process_errors # <<>>
    /\ Len(bound_field.errors) > Len(bound_field.process_errors) + 1
    /\ ~last.ok

(***************************************************************************)
(* Properties of the container (SpecJson).                                 *)
(***************************************************************************)
\* C4 (as claimed): a coercion failure stays in its field: no construction and
\* no process call is left by an exception, whatever the input map holds.
C4_CoercionFailureIsFieldLocal ==
    last.op \in {"new", "process"} => last.exc = ""

\* The field of the container with this name.
FieldNamed(name) ==
    (CHOOSE p \in {instance.fields[i] : i \in DOMAIN instance.fields} : p[1] = name)[2]

\* C9: validate calls in a row, with no process in between, all return the same
\* boolean and leave the same errors on every field, entry and enclosed field.
C9_ValidateRepeatable ==
    \A i, j \in DOMAIN history : history[i] = history[j]

\* C9 witness: two validate calls in a row that returned false, on a container
\* whose integer field has a process error and fails a validator, whose list
\* holds a failing entry and whose enclosed json has a failing field.
C9_Witness ==
    /\ Len(history) >= 2
    /\ ~history[2].ok
    /\ FieldNamed(<<"n">>).process_errors # <<>>
    /\ Len(FieldNamed(<<"n">>).errors) = 2
    /\ FieldNamed(<<"l">>).errors # <<>>
    /\ Len(FieldNamed(<<"l">>).entries) = 2
    /\ Truthy(FieldErrors(FieldNamed(<<"o">>)))

\* The returns of the validate calls the container made on its own fields, in
\* the order of the calls.
OwnValidates ==
    SelectSeq(last.log,
              LAMBDA e : /\ e.hook = "validate"
                         /\ e.field \in {instance.fields[i][1] : i \in DOMAIN instance.fields})

\* C10: the container's validate calls validate on every field once, in the
\* order of the field table, also behind a field that failed, and returns true
\* iff every one of these calls returned true (that is, iff no field is left
\* with errors).
C10_ValidateRunsEveryField ==
    (last.op = "validate" /\ last.exc = "") =>
        /\ Len(OwnValidates) = Len(unbound_fields["F"].v)
        /\ \A i \in DOMAIN OwnValidates :
               OwnValidates[i].field = unbound_fields["F"].v[i][1]
        /\ last.ok <=> \A i \in DOMAIN OwnValidates : OwnValidates[i].ok
        /\ last.ok <=> \A i \in DOMAIN instance.fields :
                           ~Truthy(FieldErrors(instance.fields[i][2]))

\* C10 witness: the first field of the table failed, the fields behind it were
\* validated and the last of them passed; validate returned false.
C10_Witness ==
    /\ last.op = "validate"
    /\ last.exc = ""
    /\ Len(OwnValidates) = 3
    /\ ~OwnValidates[1].ok
    /\ OwnValidates[3].ok
    /\ ~last.ok

\* The names of the fields of the container that hold errors.
NamesWithErrors ==
    {instance.fields[i][1] : i \in {j \in DOMAIN instance.fields :
                                       Truthy(FieldErrors(instance.fields[j][2]))}}

\* C11: validate drops the cached error view; the first read of json.errors
\* after it maps exactly the names of the fields whose errors are non-empty to
\* those errors and keeps the mapping; every later read returns the kept
\* mapping, whatever happened to the fields since.
C11_ErrorViewCached ==
    /\ last.op = "validate" => instance.errors = None
    /\ last.op = "errors" =>
           /\ instance.errors = Some(last.view)
           /\ last.cached # None => last.view = last.cached.v
           /\ last.cached = None =>
                  /\ DOMAIN last.view = NamesWithErrors
                  /\ \A name \in NamesWithErrors :
                         last.view[name] = FieldErrors(FieldNamed(name))

\* C11 witness: a read that returned the kept, non-empty mapping although the
\* container was processed since and its fields now hold other errors.
C11_Witness ==
    /\ last.op = "errors"
    /\ last.cached # None
    /\ DOMAIN last.view # {}
    /\ DOMAIN last.view # NamesWithErrors

\* The fields of the json enclosed in the object field o.
EnclosedFields == FieldNamed(<<"o">>).json.v.fields

\* The names of the enclosed fields that hold errors.
EnclosedNamesWithErrors ==
    {EnclosedFields[i][1] : i \in {j \in DOMAIN EnclosedFields :
                                      EnclosedFields[j][2].errors # <<>>}}

\* C19: the validate of the object field o returns what the validate of the
\* enclosed json returns (true iff every enclosed field's validate returned
\* true); a first read of the container's errors after it holds an entry for o
\* iff an enclosed field holds errors, and the entry is the enclosed json's
\* mapping from the names of its failing fields to their messages.
C19_ObjectFieldReportsEnclosed ==
    /\ (last.op = "validate" /\ last.exc = "") =>
           \A i \in DOMAIN last.log :
               (last.log[i].hook = "validate" /\ last.log[i].field = <<"o">>) =>
                   /\ last.log[i].ok <=>
                          \A j \in 1..(i - 1) :
                              (/\ last.log[j].hook = "validate"
                               /\ last.log[j].field \in
                                      {EnclosedFields[k][1] : k \in DOMAIN EnclosedFields})
                                  => last.log[j].ok
                   /\ last.log[i].ok <=> EnclosedNamesWithErrors = {}
    /\ (last.op = "errors" /\ last.cached = None) =>
           /\ <<"o">> \in DOMAIN last.view <=> EnclosedNamesWithErrors # {}
           /\ <<"o">> \in DOMAIN last.view =>
                  /\ last.view[<<"o">>].t = "dict"
                  /\ DOMAIN last.view[<<"o">>].m = EnclosedNamesWithErrors
                  /\ \A k \in DOMAIN EnclosedFields :
                         EnclosedFields[k][1] \in EnclosedNamesWithErrors =>
                             last.view[<<"o">>].m[EnclosedFields[k][1]] =
                                 ListValue(EnclosedFields[k][2].errors)

\* C19 witness: after a validate that failed on the enclosed field x, the
\* container's errors hold the enclosed mapping under o.
C19_Witness ==
    /\ last.op = "errors"
    /\ last.cached = None
    /\ history # <<>>
    /\ <<"o">> \in DOMAIN last.view
    /\ last.view[<<"o">>] = DictValue(<<"x">> :> ListValue(<<Message("x required")>>))

(***************************************************************************)
(* Properties of the object field (SpecObject).                            *)
(***************************************************************************)
\* The arguments o is declared with in G, and whether G defines validate_o.
ObjectDeclared == class_dict.G[<<"o">>].kwargs
InlineDeclared == InlineName(<<"o">>) \in DOMAIN class_dict.G

\* C20: constructing G raises TypeError when o is declared with validators or
\* with filters, and no container is made; when G defines validate_o, validate
\* raises TypeError, returns nothing, and neither a return of o's validate nor an
\* error of o is recorded: the errors read afterwards hold no entry for o.
C20_ConfigurationErrorsPropagate ==
    /\ (last.op = "new" /\ (ObjectDeclared.validators # <<>> \/ ObjectDeclared.filters # <<>>))
           => (last.exc = "TypeError" /\ instance = NoJson)
    /\ (last.op = "validate" /\ InlineDeclared) =>
           /\ last.exc = "TypeError"
           /\ ~last.ok
           /\ \A i \in DOMAIN last.log :
                  ~(last.log[i].hook = "validate" /\ last.log[i].field = <<"o">>)
           /\ EnclosedNamesWithErrors = {}
    /\ (last.op = "errors" /\ InlineDeclared) => <<"o">> \notin DOMAIN last.view

\* C20 witness: G defines validate_o, s was validated and failed, o holds an
\* empty x, and validate left with TypeError.
C20_Witness ==
    /\ InlineDeclared
    /\ last.op = "validate"
    /\ last.exc = "TypeError"
    /\ \E i \in DOMAIN last.log :
           last.log[i] = Validated(<<"s">>, FALSE)
    /\ EnclosedFields[1][2].data = StrValue(<<>>)

\* Reachable as well: a construction that raised for the validators of o, and
\* one that raised for its filters.
RaisedForValidators ==
    /\ last.op = "new" /\ last.exc = "TypeError"
    /\ ObjectDeclared.validators # <<>> /\ ObjectDeclared.filters = <<>>
RaisedForFilters ==
    /\ last.op = "new" /\ last.exc = "TypeError"
    /\ ObjectDeclared.validators = <<>> /\ ObjectDeclared.filters # <<>>

(***************************************************************************)
(* Properties of the container and native objects (SpecNative).            *)
(***************************************************************************)
\* obj.o as populate_obj found it: None when obj has no attribute o.
FoundTarget ==
    IF <<"o">> \in DOMAIN last.before.attrs THEN last.before.attrs[<<"o">>] ELSE NoneValue

\* C21: populate_obj of a container that holds the object field o writes the
\* data of the enclosed field x onto obj.o when obj.o is an object, and obj.o is
\* still that object; when obj.o is missing or None and process kept a default
\* object in _obj, obj.o becomes that object (the object the default producer
\* made) with x written onto it; when obj.o is missing or None and _obj is None,
\* populate_obj raises TypeError and obj.o is as it was.
C21_PopulateTargetResolution ==
    (last.op = "populate_obj" /\ <<"o">> \in {last.names[i] : i \in DOMAIN last.names}) =>
        LET o == FieldNamed(<<"o">>)
            x == EnclosedFields[1][2].data
        IN CASE FoundTarget # NoneValue ->
                    /\ last.exc = ""
                    /\ last.after.attrs[<<"o">>].id = FoundTarget.id
                    /\ last.after.attrs[<<"o">>].attrs = (<<"x">> :> x) @@ FoundTarget.attrs
             [] FoundTarget = NoneValue /\ o.obj # NoneValue ->
                    /\ last.exc = ""
                    /\ last.after.attrs[<<"o">>].id = "D"
                    /\ last.after.attrs[<<"o">>] = o.obj
                    /\ last.after.attrs[<<"o">>].attrs[<<"x">>] = x
             [] OTHER ->
                    /\ last.exc = "TypeError"
                    /\ <<"o">> \in DOMAIN last.after.attrs
                           <=> <<"o">> \in DOMAIN last.before.attrs
                    /\ <<"o">> \in DOMAIN last.after.attrs
                           => last.after.attrs[<<"o">>] = NoneValue

\* C21 witness: the container was made from a native object, then processed
\* without one, and populate_obj set the missing obj.o to the default object.
C21_Witness ==
    /\ last.op = "populate_obj"
    /\ last.exc = ""
    /\ <<"o">> \notin DOMAIN last.before.attrs
    /\ last.after.attrs[<<"o">>] = ObjectValue("D", <<"x">> :> StrValue(<<"d">>))
    /\ last.after.attrs[<<"s">>] = StrValue(<<"d">>)

\* Reachable as well: populate_obj onto an object under obj.o, and populate_obj
\* that raises for want of an object.
PopulatedExisting ==
    /\ last.op = "populate_obj" /\ last.exc = ""
    /\ FoundTarget # NoneValue
    /\ <<"o">> \in {last.names[i] : i \in DOMAIN last.names}
PopulateRaised ==
    /\ last.op = "populate_obj" /\ last.exc = "TypeError"

\* What the declared default of a field of P yields: the producers of s and of
\* o are called, the default of t is taken as it is.
DeclaredDefault ==
    (<<"s">> :> StrValue(<<"d">>))
    @@ (<<"t">> :> StrValue(<<"e">>))
    @@ (<<"o">> :> ObjectValue("D", <<"x">> :> StrValue(<<"d">>)))

\* The value the last construction or process owes the field name: the attribute
\* of obj, else the keyword value, else the entry of data, else the default.
OwedValue(name) ==
    LET obj == last.arguments[2]
        data == last.arguments[3]
        kwargs == last.arguments[4]
    IN IF obj.t = "object" /\ name \in DOMAIN obj.attrs THEN obj.attrs[name]
       ELSE IF name \in DOMAIN kwargs THEN kwargs[name]
       ELSE IF data.t = "dict" /\ name \in DOMAIN data.m THEN data.m[name]
       ELSE DeclaredDefault[name]

\* The data a field shows for a native value: the value itself, and for the
\* object field the mapping of the enclosed x to the x of the object or dict.
ShownFor(name, value) ==
    IF name # <<"o">> THEN value
    ELSE DictValue(<<"x">> :> (IF value.t = "object" THEN value.attrs[<<"x">>]
                               ELSE value.m[<<"x">>]))

\* C22: after a construction or a process without external input, every field of
\* the container holds the value owed to it: the attribute of obj when obj has
\* one of that name (even None), else the keyword value, else the entry of data,
\* else its default, a producer being called; the fields are those of the
\* table, in its order.
C22_SourcePriority ==
    (last.op \in {"new", "process"} /\ instance # NoJson /\ last.arguments[1] = NoneValue) =>
        /\ last.exc = ""
        /\ \A i \in DOMAIN instance.fields :
               FieldData(instance.fields[i][2]) =
                   ShownFor(instance.fields[i][1], OwedValue(instance.fields[i][1]))
        /\ last.op = "new" => FieldOrder(instance) = <<<<"s">>, <<"t">>, <<"o">>>>

\* C22 witness: obj carries s and o, data carries s and t, s is a keyword too:
\* s comes from obj, t from data, o from obj.
C22_Witness ==
    /\ last.op = "process"
    /\ last.arguments[1] = NoneValue
    /\ last.arguments[2].t = "object"
    /\ <<"s">> \in DOMAIN last.arguments[4]
    /\ FieldOrder(instance) = <<<<"s">>, <<"t">>, <<"o">>>>
    /\ FieldNamed(<<"s">>).data = StrValue(<<"m">>)
    /\ FieldNamed(<<"t">>).data = StrValue(<<"a">>)
    /\ EnclosedFields[1][2].data = StrValue(<<"n">>)

\* The prefix as the names carry it: the prefix passed to the construction, with
\* a hyphen unless it is empty or ends with one of - _ ; : / .
PrefixInUse ==
    LET p == last.prefix
    IN IF p = <<>> \/ p[Len(p)] \in {"-", "_", ";", ":", "/", "."} THEN p
       ELSE p \o <<"-">>

\* C25: after a construction with prefix p every field is named p' + short name,
\* p' being p when p is empty or ends with a separator and p + '-' otherwise; its
\* short name is its key in the container, its id is its name, and external
\* input is read under the name: s and t take the input value exactly when the
\* input has an entry under p' + 's' and p' + 't', and their default otherwise.
C25_PrefixedNames ==
    (last.op = "new" /\ instance # NoJson) =>
        /\ instance.prefix = PrefixInUse
        /\ \A i \in DOMAIN instance.fields :
               LET key == instance.fields[i][1]
                   field == instance.fields[i][2]
               IN /\ field.short_name = key
                  /\ field.name = PrefixInUse \o key
                  /\ field.id = StrValue(field.name)
        /\ (last.arguments[1].t = "dict") =>
               \A i \in DOMAIN instance.fields :
                   LET key == instance.fields[i][1]
                       field == instance.fields[i][2]
                       given == last.arguments[1].m
                   IN key \in {<<"s">>, <<"t">>} =>
                          field.data = IF (PrefixInUse \o key) \in DOMAIN given
                                       THEN given[PrefixInUse \o key]
                                       ELSE DeclaredDefault[key]

\* C25 witness: the prefix 'p[' got the hyphen, and the input under 'p[s' was
\* not read.
C25_Witness ==
    /\ last.op = "new"
    /\ last.prefix = <<"p", "[">>
    /\ last.arguments[1].t = "dict"
    /\ <<"p", "[", "s">> \in DOMAIN last.arguments[1].m
    /\ FieldNamed(<<"s">>).name = <<"p", "[", "-", "s">>
    /\ FieldNamed(<<"s">>).data = StrValue(<<"d">>)

\* Reachable as well: a prefix that ends with a separator is used as it is, and
\* the input under it is read.
SeparatorPrefixRead ==
    /\ last.op = "new"
    /\ last.prefix = <<"p", ".">>
    /\ FieldNamed(<<"s">>).name = <<"p", ".", "s">>
    /\ FieldNamed(<<"s">>).data = StrValue(<<"j">>)

\* The names last.names without the name that was assigned or deleted.
NamesWithout == SelectSeq(last.names, LAMBDA name : name # last.arguments[1])

\* C29 as stated: assigning and deleting a field of an instance of the typed
\* container both fail and leave the field mapping as it was.
C29_FieldMappingFixed ==
    (last.op \in {"setitem", "delitem"}) =>
        (last.exc # "" /\ FieldOrder(instance) = last.names)

\* C29, amended: assigning a field fails with TypeError and leaves the field
\* mapping as it was; deleting a field of the mapping succeeds and removes that
\* field alone, the others keeping their order; deleting a name that is not in
\* the mapping fails with KeyError and leaves the mapping as it was.  The
\* mapping is at every moment a part of the table s, t, o, in its order.
C29_AssignFailsDeleteRemoves ==
    /\ last.op = "setitem" =>
           (last.exc = "TypeError" /\ FieldOrder(instance) = last.names)
    /\ last.op = "delitem" =>
           IF last.arguments[1] \in {last.names[i] : i \in DOMAIN last.names}
           THEN last.exc = "" /\ FieldOrder(instance) = NamesWithout
           ELSE last.exc = "KeyError" /\ FieldOrder(instance) = last.names
    /\ instance # NoJson =>
           FieldOrder(instance) =
               SelectSeq(<<<<"s">>, <<"t">>, <<"o">>>>,
                         LAMBDA name : name \in {instance.fields[i][1] :
                                                    i \in DOMAIN instance.fields})

\* C29 witness: t was deleted from a container of s, t and o.
C29_Witness ==
    /\ last.op = "delitem"
    /\ last.exc = ""
    /\ last.names = <<<<"s">>, <<"t">>, <<"o">>>>
    /\ FieldOrder(instance) = <<<<"s">>, <<"o">>>>

\* Reachable as well: an assignment that raised.
AssignRaised ==
    /\ last.op = "setitem" /\ last.exc = "TypeError"
    /\ FieldOrder(instance) = last.names

\* C35: del json.name for a field of the instance returns, takes the field out
\* of the field mapping (the other fields stay, in their order) and makes
\* json.name None; for a field of the class that the instance holds no more it
\* returns and changes nothing, json.name staying None; for a name that is
\* neither a field nor an attribute of the instance it raises AttributeError
\* and changes nothing.
C35_DelAttrIdempotent ==
    [][(instance # NoJson /\ last'.op = "delattr") =>
          LET name == last'.arguments[1]
              names == FieldOrder(instance)
              held == \E i \in DOMAIN names : names[i] = name
              declared == /\ name \in DOMAIN class_dict[instance.cls]
                          /\ HasJsonField(class_dict[instance.cls][name])
          IN /\ held =>
                    /\ last'.exc = ""
                    /\ instance'.fields = SelectSeq(instance.fields, LAMBDA p : p[1] # name)
                    /\ JsonGetAttr(class_dict', instance', name) = Some(NoneValue)
             /\ (~held /\ declared) =>
                    /\ last'.exc = ""
                    /\ instance' = instance
                    /\ JsonGetAttr(class_dict, instance, name) = Some(NoneValue)
                    /\ JsonGetAttr(class_dict', instance', name) = Some(NoneValue)
             /\ (~held /\ ~declared /\ name \notin instance.masked) =>
                    /\ last'.exc = "AttributeError"
                    /\ instance' = instance]_vars

\* C35 witness: t was deleted as an attribute a second time: the container
\* holds s and o as before the call and json.t is None.
C35_Witness ==
    /\ last.op = "delattr"
    /\ last.exc = ""
    /\ last.arguments = <<<<"t">>>>
    /\ last.names = <<<<"s">>, <<"o">>>>
    /\ FieldOrder(instance) = <<<<"s">>, <<"o">>>>
    /\ JsonGetAttr(class_dict, instance, <<"t">>) = Some(NoneValue)

\* Reachable as well: the first deletion of t as an attribute.
AttributeDeleted ==
    /\ last.op = "delattr"
    /\ last.exc = ""
    /\ last.names = <<<<"s">>, <<"t">>, <<"o">>>>
    /\ FieldOrder(instance) = <<<<"s">>, <<"o">>>>
    /\ JsonGetAttr(class_dict, instance, <<"t">>) = Some(NoneValue)

\* Reachable as well: the deletion of a name that is no attribute raised.
UnknownNameRaised ==
    /\ last.op = "delattr"
    /\ last.exc = "AttributeError"
    /\ last.arguments = <<<<"u">>>>

(***************************************************************************)
(* Properties of process and the filters (SpecFilters).                    *)
(***************************************************************************)
\* The defaults of the fields of Q.
FiltersDefault ==
    (<<"a">> :> StrValue(<<" ", "h">>)) @@ (<<"b">> :> StrValue(<<"4", "2">>))
    @@ (<<"c">> :> NoneValue) @@ (<<"n">> :> IntValue(7))

\* The native value the last construction or process hands a field of Q: the
\* keyword value, else the default.
Adopted(name) ==
    IF name \in DOMAIN last.data THEN last.data[name] ELSE FiltersDefault[name]

\* The last call was a construction or a process with an input map that has no
\* entry under this name.
NoEntryFor(name) ==
    /\ last.op \in {"new", "process"}
    /\ last.jsondata.t = "dict"
    /\ name \notin DOMAIN last.jsondata.m

\* C23: after a construction or process whose input map has no entry under the
\* name of a field, raw_data of the field is the empty list; a truthy value
\* adopted from the keyword value or the default is the field's data (stripped,
\* for a, by its filter); with a falsy value process_jsondata runs on the empty
\* list: the string fields c and a end with '', and the integer field n raises
\* ValueError from it.
C23_EmptyInputOnlyForFalsyData ==
    /\ (NoEntryFor(<<"c">>) /\ last.exc = "") =>
           /\ FieldNamed(<<"c">>).raw_data = ListValue(<<>>)
           /\ FieldNamed(<<"c">>).data =
                  IF Truthy(Adopted(<<"c">>)) THEN Adopted(<<"c">>) ELSE StrValue(<<>>)
    /\ (NoEntryFor(<<"a">>) /\ last.exc = "") =>
           /\ FieldNamed(<<"a">>).raw_data = ListValue(<<>>)
           /\ FieldNamed(<<"a">>).data =
                  IF Truthy(Adopted(<<"a">>)) THEN StrValue(Strip(Adopted(<<"a">>).s))
                  ELSE StrValue(<<>>)
    /\ NoEntryFor(<<"n">>) =>
           /\ last.exc = (IF Truthy(Adopted(<<"n">>)) THEN "" ELSE "ValueError")
           /\ last.exc = "" =>
                  /\ FieldNamed(<<"n">>).raw_data = ListValue(<<>>)
                  /\ FieldNamed(<<"n">>).data = Adopted(<<"n">>)

\* C23 witness: the input map has no entry for c, a and n; the keyword value of
\* c, the default of a and the keyword value of n are kept.
C23_Witness ==
    /\ NoEntryFor(<<"c">>)
    /\ last.exc = ""
    /\ <<"c">> \in DOMAIN last.data
    /\ FieldNamed(<<"c">>).data = StrValue(<<"v">>)
    /\ FieldNamed(<<"c">>).raw_data = ListValue(<<>>)
    /\ FieldNamed(<<"a">>).data = StrValue(<<"h">>)
    /\ FieldNamed(<<"n">>).data = IntValue(3)

\* Reachable as well: a string field without value that ends with ''.
EmptyStringAdopted ==
    /\ NoEntryFor(<<"c">>)
    /\ last.exc = ""
    /\ <<"c">> \notin DOMAIN last.data
    /\ FieldNamed(<<"c">>).data = StrValue(<<>>)

\* The filters applied in order to a value, each to the result of the one
\* before, up to the first that raises: the value reached, and whether one
\* raised.
RECURSIVE FilterOutcome(_, _)
FilterOutcome(value, filters) ==
    IF filters = <<>> THEN [value |-> value, failed |-> FALSE]
    ELSE LET Then(r) ==
                 IF r.exc # "" THEN [value |-> value, failed |-> TRUE]
                 ELSE FilterOutcome(r.value, Tail(filters))
         IN Then(ApplyFilter(Head(filters), value))

\* C24: after a construction or a process without external input, b holds its
\* adopted value passed through strip, int and negation in this order up to the
\* first of them that fails; process returns, and b.process_errors holds one
\* error if a filter failed and none otherwise; a validate of the container
\* while b holds a process error returns false.
C24_FilterFailureRecorded ==
    /\ (last.op \in {"new", "process"} /\ last.jsondata = NoneValue) =>
           /\ last.exc = ""
           /\ FieldNamed(<<"b">>).data =
                  FilterOutcome(Adopted(<<"b">>), <<"strip", "int", "neg">>).value
           /\ Len(FieldNamed(<<"b">>).process_errors) =
                  (IF FilterOutcome(Adopted(<<"b">>), <<"strip", "int", "neg">>).failed
                   THEN 1 ELSE 0)
    /\ (last.op = "validate" /\ last.exc = ""
           /\ FieldNamed(<<"b">>).process_errors # <<>>) => ~last.ok

\* What holds of the code: the same, for the filters that fail with ValueError;
\* a filter that raises another exception makes process raise it.
FilterValueErrorRecorded ==
    (last.op \in {"new", "process"} /\ last.jsondata = NoneValue
        /\ Adopted(<<"b">>).t = "str") =>
           /\ last.exc = ""
           /\ FieldNamed(<<"b">>).data =
                  FilterOutcome(Adopted(<<"b">>), <<"strip", "int", "neg">>).value
           /\ Len(FieldNamed(<<"b">>).process_errors) =
                  (IF FilterOutcome(Adopted(<<"b">>), <<"strip", "int", "neg">>).failed
                   THEN 1 ELSE 0)

(***************************************************************************)
(* Properties of the list field (SpecList).                                *)
(***************************************************************************)
\* The list field of the container: json.a
TheList == instance.fields[1][2]

\* The elements of the list the input of a call holds under the name of the
\* list field of json; None when it holds no list there.
ExternalItems(json, call) ==
    LET key == json.prefix \o <<"a">>
    IN IF /\ call.jsondata.t = "dict"
          /\ key \in DOMAIN call.jsondata.m
          /\ call.jsondata.m[key].t = "list"
       THEN Some(call.jsondata.m[key].items)
       ELSE None

\* Whether the call filled the list from values given for a, without input.
NativeItems(call) ==
    IF /\ call.op \in {"new", "process"}
       /\ call.exc = ""
       /\ call.jsondata = NoneValue
       /\ <<"a">> \in DOMAIN call.data
    THEN Some(call.data[<<"a">>].items)
    ELSE None

\* Whether the first entries of the list hold the items, in order.
HoldsFirst(list, items) ==
    /\ Len(list.entries) >= Len(items)
    /\ \A i \in DOMAIN items : list.entries[i].data = items[i]

\* C28 as stated: a list filled from n values and processed again with an input
\* list of n elements has exactly n entries, which hold the elements in order.
C28_ReprocessYieldsInput ==
    [][(/\ NativeItems(last) # None
        /\ last'.op = "process"
        /\ last'.exc = ""
        /\ ExternalItems(instance', last') # None
        /\ Len(ExternalItems(instance', last').v) = Len(NativeItems(last).v))
       => /\ HoldsFirst(instance'.fields[1][2], ExternalItems(instance', last').v)
          /\ Len(instance'.fields[1][2].entries) = Len(NativeItems(last).v)]_vars

\* C28: a process that returns after an input list of k elements leaves, whatever
\* entries the list held, k entries holding the elements in order, followed by
\* entries that pad the list to min_entries when k is below it; so a list filled
\* from n values and processed with n elements has exactly n entries when n is
\* at least min_entries.
C28_ProcessReplacesEntries ==
    [][(/\ last'.op = "process"
        /\ last'.exc = ""
        /\ ExternalItems(instance', last') # None)
       => LET list == instance'.fields[1][2]
              items == ExternalItems(instance', last').v
          IN /\ HoldsFirst(list, items)
             /\ Len(list.entries) =
                    IF Len(items) < list.min_entries THEN list.min_entries
                    ELSE Len(items)]_vars

\* C28 witness: the list, without min_entries, was given the value [1], so that
\* its one entry took index 0, and was processed with the input list [5]: it
\* holds the one entry 5, bound with index 1.
C28_Witness ==
    /\ last.op = "process"
    /\ last.exc = ""
    /\ ExternalItems(instance, last) = Some(<<IntValue(5)>>)
    /\ TheList.min_entries = 0
    /\ Len(TheList.entries) = 1
    /\ TheList.entries[1].data = IntValue(5)
    /\ TheList.last_index = 1

\* C30: pop_entry on a list without entries raises IndexError and leaves the
\* list as it was: entries stays empty and last_index keeps its value, so that
\* an append_entry after it adds the entry, with the id, that it would have
\* added without the pop.
C30_PopOnEmptyChangesNothing ==
    [][(/\ instance # NoJson
        /\ last'.op = "pop"
        /\ instance.fields[1][2].entries = <<>>)
       => /\ last'.exc = "IndexError"
          /\ instance'.fields[1][2].entries = <<>>
          /\ instance'.fields[1][2].last_index = instance.fields[1][2].last_index
          /\ instance' = instance
          /\ AppendEntry(World(class_dict', unbound_fields', json_meta'),
                         instance'.fields[1][2], IntValue(7)).field.entries[1].id
               = AppendEntry(World(class_dict, unbound_fields, json_meta),
                             instance.fields[1][2], IntValue(7)).field.entries[1].id]_vars

\* C30 witness: the list took an entry with index 0 and was processed empty,
\* and the pop_entry after that raised IndexError: last_index is still 0.
C30_Witness ==
    /\ last.op = "pop"
    /\ last.exc = "IndexError"
    /\ TheList.entries = <<>>
    /\ TheList.last_index = 0

\* C36: after the construction and after every process, append_entry and
\* pop_entry, last_index is the number of entries less one (-1 exactly when the
\* list is empty), so that the next entry is bound with the number of entries
\* as its index.
C36_LastIndexCountsEntries ==
    instance # NoJson =>
        /\ TheList.last_index = Len(TheList.entries) - 1
        /\ (TheList.last_index = -1 <=> TheList.entries = <<>>)

\* C37: a list declared with max_entries = m, for any m >= 0, never holds more
\* than m entries, whatever was processed, appended or padded; the call that
\* would add one more raises AssertionError, and a process that raises it
\* records no error on the list.
C37_MaxEntriesIsHardCap ==
    (instance # NoJson /\ TheList.max_entries # NoneValue) =>
        /\ Len(TheList.entries) <= TheList.max_entries.n
        /\ (last.op = "process" /\ last.exc = "AssertionError")
               => TheList.process_errors = <<>>

\* The values a call without input fills the list from: the value given for a
\* when it is truthy, the default of the list otherwise.
GivenItems(list, call) ==
    IF <<"a">> \in DOMAIN call.data /\ Truthy(call.data[<<"a">>])
    THEN call.data[<<"a">>].items
    ELSE CallDefault(list.default).items

\* C38: a construction or process with an input that is a non-empty dict
\* without the name of the list returns and leaves exactly one error, 'Not a
\* valid list value', on the list and the min_entries entries of the padding,
\* none made from the value given for a or from the default; one with no input
\* or an empty input, unless max_entries stops it, returns and leaves no error
\* and one entry for each value given for a, or for each element of the default
\* when none is given, ahead of the padding.
C38_MissingKeyIsAnError ==
    (instance # NoJson /\ (last.op = "process" \/ (last.op = "new" /\ last.exc = ""))) =>
        /\ (/\ last.jsondata.t = "dict"
            /\ last.jsondata.m # <<>>
            /\ TheList.name \notin DOMAIN last.jsondata.m)
               => /\ last.exc = ""
                  /\ TheList.process_errors = <<Message("Not a valid list value")>>
                  /\ Len(TheList.entries) = TheList.min_entries
        /\ (/\ last.jsondata = NoneValue \/ last.jsondata = DictValue(<<>>)
            /\ last.exc # "AssertionError")
               => /\ last.exc = ""
                  /\ TheList.process_errors = <<>>
                  /\ HoldsFirst(TheList, GivenItems(TheList, last))
                  /\ Len(TheList.entries) =
                         IF Len(GivenItems(TheList, last)) < TheList.min_entries
                         THEN TheList.min_entries
                         ELSE Len(GivenItems(TheList, last))

\* C12: the id of the entry at position i (counted from 0) is i, after every
\* process, append_entry and pop_entry.
C12_EntryIdIsPosition ==
    instance # NoJson =>
        \A i \in DOMAIN TheList.entries : TheList.entries[i].id = IntValue(i - 1)

\* Whether the id x is a number below the number y.
IdBelow(x, y) == x.t = "int" /\ y.t = "int" /\ x.n < y.n

\* C13: after append_entry and pop_entry the ids of the entries present
\* increase strictly with the position (so they are pairwise distinct, and the
\* id of an appended entry is greater than the id of every entry that remained).
C13_EntryIdsIncrease ==
    (instance # NoJson /\ last.op \in {"append", "pop"} /\ last.exc = "") =>
        \A i, j \in DOMAIN TheList.entries :
            i < j => IdBelow(TheList.entries[i].id, TheList.entries[j].id)

\* C14: a process that fails on more than max_entries elements fails before an
\* entry is bound: the list holds no entry.
C14_NoEntryBoundAtFault ==
    (last.op = "process" /\ last.exc = "AssertionError") => TheList.entries = <<>>

\* The last call processed the list and returned: a construction or a process.
Processed ==
    instance # NoJson /\ last.op \in {"new", "process"} /\ last.exc = ""

\* Whether the input of the last call holds a value under the name of the list.
InputNamesList ==
    last.jsondata.t = "dict" /\ TheList.name \in DOMAIN last.jsondata.m

\* The number of elements the last call supplied for the list: those of the
\* list under its name in the input, or without input those of the values.
Supplied ==
    IF Truthy(last.jsondata)
    THEN IF InputNamesList /\ last.jsondata.m[TheList.name].t = "list"
         THEN Len(last.jsondata.m[TheList.name].items)
         ELSE 0
    ELSE IF <<"a">> \in DOMAIN last.data THEN Len(last.data[<<"a">>].items)
    ELSE 0

\* C15: after process the list holds at least min_entries entries, and the
\* entries added as padding (those behind the supplied elements) are blank:
\* they hold no data.
C15_PaddingIsBlank ==
    Processed =>
        /\ Len(TheList.entries) >= TheList.min_entries
        /\ \A i \in DOMAIN TheList.entries :
               i > Supplied => TheList.entries[i].data = NoneValue

\* C16: when the input holds a list under the name of the list field, process
\* creates one entry per element, in order, and each element goes through the
\* coercion of the element field: the entry holds the coerced value, or a
\* process error if the element cannot be coerced.  When the value under the
\* name is no list, process records one error on the list field and creates
\* no entry beyond the padding.
C16_ElementsAreCoerced ==
    (Processed /\ InputNamesList) =>
        IF last.jsondata.m[TheList.name].t = "list"
        THEN /\ Len(TheList.entries) >= Supplied
             /\ \A i \in 1..Supplied :
                    IF IntOf(last.jsondata.m[TheList.name].items[i]).exc = ""
                    THEN /\ TheList.entries[i].data =
                                IntOf(last.jsondata.m[TheList.name].items[i]).value
                         /\ TheList.entries[i].process_errors = <<>>
                    ELSE TheList.entries[i].process_errors # <<>>
        ELSE /\ Len(TheList.process_errors) = 1
             /\ Len(TheList.entries) <= TheList.min_entries

ListChain ==
    TheList.validators \o
        (IF InlineName(<<"a">>) \in DOMAIN class_dict["L"]
         THEN <<class_dict["L"][InlineName(<<"a">>)].behaviour>>
         ELSE <<>>)

\* The calls of the last validate that closed the validation of an entry (each
\* entry's validate ends with its post_validate).
EntryCalls == SelectSeq(last.log, LAMBDA e : e.hook = "post_validate")

\* The callables the last validate called behind the last entry: the
\* validators of the list itself.
ListCalls ==
    LET closing == {i \in DOMAIN last.log : last.log[i].hook = "post_validate"}
        from == IF closing = {} THEN 1
                ELSE (CHOOSE i \in closing : \A j \in closing : j <= i) + 1
        calls == SelectSeq(SubSeq(last.log, from, Len(last.log)),
                           LAMBDA e : e.hook = "validator")
    IN [i \in DOMAIN calls |-> calls[i].callee]

\* The error lists of the entries that hold errors, in the order of the entries.
FailedEntryErrors ==
    SelectSeq([i \in DOMAIN TheList.entries |-> ListValue(TheList.entries[i].errors)],
              LAMBDA errors : errors.items # <<>>)

\* The messages of the validators of the list that reject its data.
ListChainMessages ==
    LET fired == SelectSeq(ListChain, LAMBDA v : Fires(v, FieldData(TheList), FALSE))
    IN [i \in DOMAIN fired |-> fired[i].args[1]]

\* C18 as stated: ListField.validate returns true iff no entry failed and no
\* validator of the list recorded an error.
C18_TrueIffEntriesAndValidatorsPass ==
    (instance # NoJson /\ last.op = "validate" /\ last.exc = "") =>
        (last.ok <=> (FailedEntryErrors = <<>> /\ ListChainMessages = <<>>))

\* C18, amended: ListField.validate validates every entry, also behind one that
\* failed; its errors are the process errors of the list, then the error list
\* of each failing entry in entry order, then the messages of its validators;
\* the declared and the extra validators are all called, also when entries
\* failed; it returns true iff these errors are empty, that is iff the list has
\* no process error, no entry failed and no validator recorded an error.
C18_ListValidateAggregates ==
    (instance # NoJson /\ last.op = "validate" /\ last.exc = "") =>
        /\ Len(EntryCalls) = Len(TheList.entries)
        /\ ListCalls = ListChain
        /\ TheList.errors =
               (TheList.process_errors \o FailedEntryErrors) \o ListChainMessages
        /\ last.ok <=> TheList.errors = <<>>
        /\ last.ok <=> /\ TheList.process_errors = <<>>
                       /\ FailedEntryErrors = <<>>
                       /\ ListChainMessages = <<>>

\* C18 witness: of four entries the second failed and those behind it passed;
\* both validators of the list were called; validate returned false with the
\* error list of the second entry as the only error of the list.
C18_Witness ==
    /\ instance # NoJson
    /\ last.op = "validate"
    /\ last.exc = ""
    /\ ~last.ok
    /\ Len(TheList.entries) = 4
    /\ TheList.entries[2].errors # <<>>
    /\ TheList.entries[4].errors = <<>>
    /\ Len(ListCalls) = 2
    /\ TheList.errors = <<ListValue(<<Message("entry required")>>)>>

(***************************************************************************)
(* Properties of the instances that share a default (SpecShared).          *)
(***************************************************************************)
\* The data of the entries of a list.
EntryData(list) == [i \in DOMAIN list.entries |-> list.entries[i].data]

\* The data of a list filled from the items and padded to min_entries.
RECURSIVE Padded(_, _)
Padded(items, min_entries) ==
    IF Len(items) < min_entries THEN Padded(Append(items, NoneValue), min_entries)
    ELSE items

\* C39: whatever was processed, appended and popped on one L, the default of the
\* list is the declared list [9], in the declaration and in the list field of
\* every L, and an L constructed without input at any time holds, and goes on
\* holding, the entries of a first construction: one entry for 9, with index 0,
\* and the padding to min_entries behind it.
C39_SharedDefaultUntouched ==
    /\ unbound_fields["L"] # None
           => unbound_fields["L"].v[1][2].kwargs.default = SharedDefault
    /\ instance # NoJson => TheList.default = SharedDefault
    /\ constructed # NoJson
           => LET list == constructed.fields[1][2]
              IN /\ list.default = SharedDefault
                 /\ EntryData(list) = Padded(SharedDefault.items, list.min_entries)
                 /\ list.last_index = Len(list.entries) - 1
                 /\ list.process_errors = <<>>

\* C39 witness: an L was constructed without input after the first L was
\* processed without values, which takes the default, and then appended to, so
\* that the first holds 9 and 7; afterwards an entry of the first was popped.
C39_Witness ==
    /\ constructed # NoJson
    /\ instance # NoJson
    /\ TheList.min_entries = 0
    /\ EntryData(TheList) = <<IntValue(9)>>
    /\ TheList.last_index = 0
    /\ last.op = "pop"
    /\ last.exc = ""

\* An L constructed without input while the first L holds the input list [5].
LaterThanInput ==
    /\ last.op = "later"
    /\ last.exc = ""
    /\ instance # NoJson
    /\ EntryData(TheList) = <<IntValue(5)>>
    /\ EntryData(constructed.fields[1][2]) = <<IntValue(9)>>

=============================================================================
